---- MODULE Spec2Model ----
(***************************************************************************)
(* GOON codec: encode (encode.ts), decode (decode.ts) and the shared       *)
(* utilities (utils.ts).                                                    *)
(*                                                                         *)
(* A JavaScript string is a sequence of one-character strings; a text is   *)
(* one such sequence with "\n" between its lines.  A value is a tagged     *)
(* record:                                                                  *)
(*   [t |-> "null"]   [t |-> "bool", b |-> ..]   [t |-> "num", m, e]        *)
(*   [t |-> "str", s |-> chars]   [t |-> "arr", items |-> <<..>>]           *)
(*   [t |-> "obj", keys |-> <<..>>, vals |-> <<..>>]                        *)
(* A number is the decimal m * 10^(-e), normalised (e = 0 or m not a        *)
(* multiple of 10).  An object keeps its own enumerable keys in             *)
(* enumeration order.                                                       *)
(***************************************************************************)
EXTENDS Integers, Sequences, FiniteSets, TLC

\* phase:   "input", "encoded" or "decoded"
\* value:   the value the caller encodes
\* options: the EncodeOptions the caller passes
\* encoded: what encode did, [err |-> it threw, text |-> the string it returned]
\* decoded: what decode did on that string, [err |-> it threw, val |-> the value it
\*          returned, index |-> ctx.index and depth |-> ctx.depth at the end]
\* frame:   the call a descent is about to make (its function and arguments),
\*          [fn |-> "none"] when a call is taken as one step
VARIABLES phase, value, options, encoded, decoded, frame

vars == <<phase, value, options, encoded, decoded, frame>>

----------------------------------------------------------------------------
(* Characters and strings                                                  *)

Digits == {"0", "1", "2", "3", "4", "5", "6", "7", "8", "9"}

Letters ==
  {"a", "b", "c", "d", "e", "f", "g", "h", "i", "j", "k", "l", "m",
   "n", "o", "p", "q", "r", "s", "t", "u", "v", "w", "x", "y", "z",
   "A", "B", "C", "D", "E", "F", "G", "H", "I", "J", "K", "L", "M",
   "N", "O", "P", "Q", "R", "S", "T", "U", "V", "W", "X", "Y", "Z"}

\* \w of a JavaScript regular expression
WordChars == Letters \cup Digits \cup {"_"}

\* [\w.] : the characters the decoder accepts in a key
KeyChars == WordChars \cup {"."}

\* \s of a JavaScript regular expression, and what String.prototype.trim strips,
\* among the characters of the model
\* U+00A0, the no-break space: one character, two bytes in UTF-8, and white
\* space for trim and \s
NBSP == "u00A0"

SpaceChars == {" ", "\t", "\n", "\r", NBSP}

\* what . of a JavaScript regular expression does not match, among the
\* characters of the model (U+2028 and U+2029 are not among them)
LineTerminators == {"\n", "\r"}

\* the characters of the model in UTF-16 code unit order
CodeOrder ==
  <<"\t", "\n", "\r", " ", "!", "\"", "$", "*", "+", ",", "-", ".", "/",
    "0", "1", "2", "3", "4", "5", "6", "7", "8", "9", ":", "=", "@",
    "A", "B", "C", "D", "E", "F", "G", "H", "I", "J", "K", "L", "M",
    "N", "O", "P", "Q", "R", "S", "T", "U", "V", "W", "X", "Y", "Z",
    "[", "\\", "]", "^", "_",
    "a", "b", "c", "d", "e", "f", "g", "h", "i", "j", "k", "l", "m",
    "n", "o", "p", "q", "r", "s", "t", "u", "v", "w", "x", "y", "z",
    "{", "|", "}", "~">>

CharCode(c) == CHOOSE i \in 1..Len(CodeOrder) : CodeOrder[i] = c

AllIn(s, set) == \A i \in 1..Len(s) : s[i] \in set

\* the characters that occur in s
Chars(s) == {s[i] : i \in 1..Len(s)}

Contains(s, c) == \E i \in 1..Len(s) : s[i] = c

StartsWith(s, p) == Len(s) >= Len(p) /\ SubSeq(s, 1, Len(p)) = p

EndsWith(s, p) == Len(s) >= Len(p) /\ SubSeq(s, Len(s) - Len(p) + 1, Len(s)) = p

\* s.slice(n)
Drop(s, n) == SubSeq(s, n + 1, Len(s))

\* the length of the longest prefix of s made of characters of set
PrefixLen(s, set) ==
  IF AllIn(s, set) THEN Len(s)
  ELSE (CHOOSE i \in 1..Len(s) : s[i] \notin set /\ AllIn(SubSeq(s, 1, i - 1), set)) - 1

\* the length of the longest suffix of s made of characters of set
SuffixLen(s, set) ==
  IF AllIn(s, set) THEN Len(s)
  ELSE Len(s) - (CHOOSE i \in 1..Len(s) : s[i] \notin set /\ AllIn(Drop(s, i), set))

\* String.prototype.trim
Trim(s) ==
  IF AllIn(s, SpaceChars) THEN <<>>
  ELSE SubSeq(s, PrefixLen(s, SpaceChars) + 1, Len(s) - SuffixLen(s, SpaceChars))

\* String.prototype.repeat
Repeat(s, n) ==
  IF n <= 0 \/ Len(s) = 0 THEN <<>> ELSE [i \in 1..(n * Len(s)) |-> s[((i - 1) % Len(s)) + 1]]

RECURSIVE Join(_, _)
\* Array.prototype.join
Join(parts, sep) ==
  IF Len(parts) = 0 THEN <<>>
  ELSE IF Len(parts) = 1 THEN parts[1]
  ELSE Join(SubSeq(parts, 1, Len(parts) \div 2), sep) \o sep \o
       Join(SubSeq(parts, Len(parts) \div 2 + 1, Len(parts)), sep)

\* the positions of s that hold c
Positions(s, c) == {k \in 1..Len(s) : s[k] = c}

\* a position of seps the nearest to mid
Nearest(seps, mid) ==
  CHOOSE k \in seps : \A m \in seps : (IF m >= mid THEN m - mid ELSE mid - m) >=
                                       (IF k >= mid THEN k - mid ELSE mid - k)

RECURSIVE Split(_, _)
\* String.prototype.split on a one-character separator: the pieces on both
\* sides of one separator
Split(s, c) ==
  IF ~Contains(s, c) THEN <<s>>
  ELSE Split(SubSeq(s, 1, Nearest(Positions(s, c), Len(s) \div 2) - 1), c) \o
       Split(Drop(s, Nearest(Positions(s, c), Len(s) \div 2)), c)

RECURSIVE Filter(_, _)
\* the elements of seq that are in set, in order
Filter(seq, set) ==
  IF seq = <<>> THEN <<>>
  ELSE (IF Head(seq) \in set THEN <<Head(seq)>> ELSE <<>>) \o Filter(Tail(seq), set)

\* string comparison by code units: a < b
RECURSIVE StrLess(_, _)
StrLess(a, b) ==
  IF b = <<>> THEN FALSE
  ELSE IF a = <<>> THEN TRUE
  ELSE IF a[1] = b[1] THEN StrLess(Tail(a), Tail(b))
  ELSE CharCode(a[1]) < CharCode(b[1])

RECURSIVE Pow10(_)
Pow10(n) == IF n <= 0 THEN 1 ELSE 10 * Pow10(n - 1)

DigitChar(d) == CHOOSE c \in Digits : CharCode(c) - CharCode("0") = d

DigitVal(c) == CharCode(c) - CharCode("0")

RECURSIVE NatToStr(_)
\* String(n) for a natural number
NatToStr(n) == IF n < 10 THEN <<DigitChar(n)>> ELSE NatToStr(n \div 10) \o <<DigitChar(n % 10)>>

RECURSIVE StrToNat(_)
\* parseInt(s, 10) for a string of digits
StrToNat(s) == IF s = <<>> THEN 0 ELSE 10 * StrToNat(SubSeq(s, 1, Len(s) - 1)) + DigitVal(s[Len(s)])

----------------------------------------------------------------------------
(* Values                                                                  *)

Null == [t |-> "null"]
Bool(b) == [t |-> "bool", b |-> b]
Str(s) == [t |-> "str", s |-> s]
Arr(items) == [t |-> "arr", items |-> items]
Obj(keys, vals) == [t |-> "obj", keys |-> keys, vals |-> vals]

RECURSIVE Normalise(_, _)
Normalise(m, e) == IF e > 0 /\ m % 10 = 0 THEN Normalise(m \div 10, e - 1) ELSE [t |-> "num", m |-> m, e |-> e]

Num(m, e) == Normalise(m, e)
IntV(n) == [t |-> "num", m |-> n, e |-> 0]

Abs(n) == IF n < 0 THEN -n ELSE n

\* String(x) for a number in the range where JavaScript prints plain decimals
NumToStr(v) ==
  LET a == Abs(v.m)
      ip == a \div Pow10(v.e)
      fp == a % Pow10(v.e)
      fs == NatToStr(fp)
  IN (IF v.m < 0 THEN <<"-">> ELSE <<>>) \o NatToStr(ip) \o
     (IF v.e = 0 THEN <<>> ELSE <<".">> \o Repeat(<<"0">>, v.e - Len(fs)) \o fs)

\* /^-?\d+(\.\d+)?$/
LooksLikeNumber(str) ==
  LET u == IF StartsWith(str, <<"-">>) THEN Tail(str) ELSE str
      n == PrefixLen(u, Digits)
  IN /\ n >= 1
     /\ \/ n = Len(u)
        \/ /\ u[n + 1] = "."
           /\ Len(u) >= n + 2
           /\ AllIn(Drop(u, n + 1), Digits)

\* parseFloat on a string that matches /^\d+(\.\d+)?$/
parseUnsigned(u) ==
  LET n == PrefixLen(u, Digits)
      frac == IF n = Len(u) THEN <<>> ELSE Drop(u, n + 1)
  IN Num(StrToNat(SubSeq(u, 1, n)) * Pow10(Len(frac)) + StrToNat(frac), Len(frac))

Negate(v) == [v EXCEPT !.m = -v.m]

\* parseFloat on a string that matches /^-?\d+(\.\d+)?$/
ParseFloat(str) ==
  IF StartsWith(str, <<"-">>) THEN Negate(parseUnsigned(Tail(str))) ELSE parseUnsigned(str)

----------------------------------------------------------------------------
(* utils.ts                                                                *)

MAX_REPEAT_COUNT == 10000

MAX_RECURSION_DEPTH == 100

\* a checked recursionDepth that never exceeds the limit
depthWithinLimitAlways(recursionDepth) == FALSE

\* if (recursionDepth >= MAX_RECURSION_DEPTH) throw new GoonEncodeError(...)
encodeDepthExceeded(recursionDepth) == recursionDepth >= MAX_RECURSION_DEPTH

\* if (ctx.depth > MAX_RECURSION_DEPTH) throw new GoonDecodeError(...)
decodeDepthExceeded(depth) == depth > MAX_RECURSION_DEPTH

DICT_LINE_OVERHEAD_CHARS == 10

DANGEROUS_KEYS ==
  { <<"_", "_", "p", "r", "o", "t", "o", "_", "_">>,
    <<"c", "o", "n", "s", "t", "r", "u", "c", "t", "o", "r">>,
    <<"p", "r", "o", "t", "o", "t", "y", "p", "e">>,
    <<"_", "_", "d", "e", "f", "i", "n", "e", "G", "e", "t", "t", "e", "r", "_", "_">>,
    <<"_", "_", "d", "e", "f", "i", "n", "e", "S", "e", "t", "t", "e", "r", "_", "_">>,
    <<"_", "_", "l", "o", "o", "k", "u", "p", "G", "e", "t", "t", "e", "r", "_", "_">>,
    <<"_", "_", "l", "o", "o", "k", "u", "p", "S", "e", "t", "t", "e", "r", "_", "_">> }

\* an isSafeKey that lets every key through
isSafeKeyAlways(key) == TRUE

isSafeKey(key) == key \notin DANGEROUS_KEYS

isPlainObject(v) == v.t = "obj"

isPrimitive(v) == v.t \in {"null", "str", "num", "bool"}

\* Object.keys(o).sort(): the keys in code unit order
SortedKeys(o) ==
  [r \in 1..Len(o.keys) |->
     o.keys[CHOOSE i \in 1..Len(o.keys) :
              Cardinality({j \in 1..Len(o.keys) : StrLess(o.keys[j], o.keys[i])}) = r - 1]]

\* item[key]
Get(o, key) == o.vals[CHOOSE i \in 1..Len(o.keys) : o.keys[i] = key]

\* a test that takes every array with an item for tabular
isTabularArrayOfAny(arr) == Len(arr) > 0

isTabularArray(arr) ==
  IF Len(arr) = 0 THEN FALSE
  ELSE IF ~(\A i \in 1..Len(arr) : isPlainObject(arr[i])) THEN FALSE
  ELSE LET firstKeys == SortedKeys(arr[1])
       IN IF Len(firstKeys) = 0 THEN FALSE
          ELSE \A n \in 1..Len(arr) :
                 LET keys == SortedKeys(arr[n])
                 IN /\ Len(keys) = Len(firstKeys)
                    /\ \A i \in 1..Len(keys) :
                         /\ keys[i] = firstKeys[i]
                         /\ isPrimitive(Get(arr[n], keys[i]))

RECURSIVE scan(_, _, _)
\* the strings scan counts, one entry per counted occurrence, in visiting order
scan(v, depth, minLength) ==
  LET RECURSIVE each(_)
      each(vs) == IF vs = <<>> THEN <<>> ELSE scan(Head(vs), depth + 1, minLength) \o each(Tail(vs))
  IN IF depth > MAX_RECURSION_DEPTH THEN <<>>
     ELSE IF v.t = "str" /\ Len(v.s) >= minLength THEN <<v.s>>
     ELSE IF v.t = "arr" THEN each(v.items)
     ELSE IF v.t = "obj" THEN each(v.vals)
     ELSE <<>>

\* the keys of a Map filled in the order of seq
RECURSIVE Distinct(_)
Distinct(seq) ==
  IF seq = <<>> THEN <<>>
  ELSE LET rest == Distinct(SubSeq(seq, 1, Len(seq) - 1))
           last == seq[Len(seq)]
       IN IF \E i \in 1..Len(rest) : rest[i] = last THEN rest ELSE Append(rest, last)

Count(seq, x) == Cardinality({i \in 1..Len(seq) : seq[i] = x})

RECURSIVE SelectIdx(_, _, _)
\* the indices i of 1..n, ascending, with keep[i]
SelectIdx(n, keep, i) ==
  IF i > n THEN <<>>
  ELSE (IF keep[i] THEN <<i>> ELSE <<>>) \o SelectIdx(n, keep, i + 1)

\* Array.prototype.sort((a, b) => key(b) - key(a)), which is stable
SortDescBy(seq, key) ==
  [r \in 1..Len(seq) |->
     seq[CHOOSE i \in 1..Len(seq) :
           Cardinality({j \in 1..Len(seq) :
                          key[j] > key[i] \/ (key[j] = key[i] /\ j < i)}) = r - 1]]

RECURSIVE pickEntries(_, _, _, _)
\* the loop of buildDictionary over the sorted candidates
pickEntries(candidates, occurrences, maxEntries, entries) ==
  IF candidates = <<>> THEN entries
  ELSE IF maxEntries > 0 /\ Len(entries) >= maxEntries THEN entries
  ELSE LET str == Head(candidates)
           count == Count(occurrences, str)
           dictCost == Len(str) + 1
           refLength == 2
           actualSavings == (Len(str) - refLength) * count - dictCost
       IN pickEntries(Tail(candidates), occurrences, maxEntries,
                      IF actualSavings > 0 THEN Append(entries, str) ELSE entries)

\* [...counts.entries()].filter(([, count]) => count >= minOccurrences)
frequentStrings(occurrences, minOccurrences) ==
  SelectSeq(Distinct(occurrences), LAMBDA str : Count(occurrences, str) >= minOccurrences)

\* the savings the map step computes for str at potentialIndex
potentialSavings(occurrences, str, potentialIndex) ==
  LET refLength == IF potentialIndex < 10 THEN 2
                   ELSE IF potentialIndex < 100 THEN 3 ELSE 4
      dictCost == Len(str) + 1
  IN (Len(str) - refLength) * Count(occurrences, str) - dictCost

\* a filter that keeps every candidate with positive savings
sortByPositiveSavings(frequent, savings) ==
  LET kept == SelectIdx(Len(frequent), [p \in 1..Len(frequent) |-> savings[p] > 0], 1)
      sorted == SortDescBy(kept, [k \in 1..Len(kept) |-> savings[kept[k]]])
  IN [k \in 1..Len(sorted) |-> frequent[sorted[k]]]

\* .filter(({ savings }) => savings > DICT_LINE_OVERHEAD_CHARS)
\* .sort((a, b) => b.savings - a.savings): the strings of what is left
sortBySavings(frequent, savings) ==
  LET kept == SelectIdx(Len(frequent),
                        [p \in 1..Len(frequent) |-> savings[p] > DICT_LINE_OVERHEAD_CHARS], 1)
      sorted == SortDescBy(kept, [k \in 1..Len(kept) |-> savings[kept[k]]])
  IN [k \in 1..Len(sorted) |-> frequent[sorted[k]]]

\* the candidates of buildDictionary, best savings first
sortedCandidates(occurrences, frequent) ==
  sortBySavings(frequent,
                [p \in 1..Len(frequent) |-> potentialSavings(occurrences, frequent[p], p - 1)])

\* { entries, lookup } with lookup.get(entries[i]) = `$${i}`
withLookup(entries) ==
  [entries |-> entries,
   lookup |-> [i \in 1..Len(entries) |-> <<"$">> \o NatToStr(i - 1)]]

\* buildDictionary after scan(value): occurrences has one entry per counted string
dictionaryOf(occurrences, minOccurrences, maxEntries) ==
  withLookup(pickEntries(sortedCandidates(occurrences, frequentStrings(occurrences, minOccurrences)),
                         occurrences, maxEntries, <<>>))

buildDictionary(v, minLength, minOccurrences, maxEntries) ==
  dictionaryOf(scan(v, 0, minLength), minOccurrences, maxEntries)

NoDictionary == [entries |-> <<>>, lookup |-> <<>>]

\* dictionary.lookup.has(str)
InLookup(dictionary, str) == \E i \in 1..Len(dictionary.entries) : dictionary.entries[i] = str

\* dictionary.lookup.get(str)
Lookup(dictionary, str) ==
  dictionary.lookup[CHOOSE i \in 1..Len(dictionary.entries) : dictionary.entries[i] = str]

\* /\*\d+$/
LooksLikeRunLength(str) ==
  LET n == SuffixLen(str, Digits)
  IN n >= 1 /\ Len(str) > n /\ str[Len(str) - n] = "*"

\* /^\$\d+$/
LooksLikeReference(str) ==
  Len(str) >= 2 /\ str[1] = "$" /\ AllIn(Tail(str), Digits)

\* needsQuoting without its check of the reserved single characters
needsQuotingWithoutReserved(str) ==
  IF str = <<>> THEN FALSE
  ELSE \/ str[1] = "$"
       \/ str[1] = "^"
       \/ \E i \in 1..Len(str) : str[i] \in {"|", "\n", "\r", "\t"}
       \/ LooksLikeNumber(str)
       \/ LooksLikeReference(str)
       \/ LooksLikeRunLength(str)

needsQuoting(str) ==
  IF str = <<>> THEN FALSE
  ELSE \/ str \in {<<"T">>, <<"F">>, <<"_">>, <<"~">>, <<"^">>}
       \/ str[1] = "$"
       \/ str[1] = "^"
       \/ \E i \in 1..Len(str) : str[i] \in {"|", "\n", "\r", "\t"}
       \/ LooksLikeNumber(str)
       \/ LooksLikeReference(str)
       \/ LooksLikeRunLength(str)

RECURSIVE ReplaceAll(_, _, _)
\* str.replace(/c/g, by)
ReplaceAll(str, c, by) ==
  IF str = <<>> THEN <<>>
  ELSE (IF Head(str) = c THEN by ELSE <<Head(str)>>) \o ReplaceAll(Tail(str), c, by)

quoteString(str) ==
  IF ~needsQuoting(str) THEN str
  ELSE LET e1 == ReplaceAll(str, "\\", <<"\\", "\\">>)
           e2 == ReplaceAll(e1, "\"", <<"\\", "\"">>)
           e3 == ReplaceAll(e2, "\n", <<"\\", "n">>)
           e4 == ReplaceAll(e3, "\r", <<"\\", "r">>)
           escaped == ReplaceAll(e4, "\t", <<"\\", "t">>)
       IN <<"\"">> \o escaped \o <<"\"">>

RECURSIVE unescape(_)
\* the loop of unquoteString over inner
unescape(inner) ==
  IF inner = <<>> THEN <<>>
  ELSE IF inner[1] = "\\" /\ Len(inner) >= 2 THEN
         LET next == inner[2]
             out == IF next = "\\" THEN <<"\\">>
                    ELSE IF next = "\"" THEN <<"\"">>
                    ELSE IF next = "n" THEN <<"\n">>
                    ELSE IF next = "r" THEN <<"\r">>
                    ELSE IF next = "t" THEN <<"\t">>
                    ELSE <<"\\", next>>
         IN out \o unescape(Drop(inner, 2))
  ELSE <<inner[1]>> \o unescape(Tail(inner))

unquoteString(str) ==
  IF ~StartsWith(str, <<"\"">>) \/ ~EndsWith(str, <<"\"">>) THEN str
  ELSE unescape(SubSeq(str, 2, Len(str) - 1))

encodePrimitive(v, dictionary, useDictionary) ==
  IF v.t = "null" THEN <<"_">>
  ELSE IF v.t = "bool" THEN (IF v.b THEN <<"T">> ELSE <<"F">>)
  ELSE IF v.t = "num" THEN NumToStr(v)
  ELSE IF v.s = <<>> THEN <<"~">>
  ELSE IF useDictionary /\ InLookup(dictionary, v.s) THEN Lookup(dictionary, v.s)
  ELSE quoteString(v.s)

\* a parser that gives null for every token that starts with `$`
parsePrimitiveWithoutReferences(str, dictionary) ==
  IF Len(str) > 1 /\ str[1] = "$" THEN Null ELSE Str(str)

parsePrimitive(str, dictionary) ==
  IF str = <<"_">> THEN Null
  ELSE IF str = <<"T">> THEN Bool(TRUE)
  ELSE IF str = <<"F">> THEN Bool(FALSE)
  ELSE IF str = <<"~">> THEN Str(<<>>)
  ELSE IF LooksLikeReference(str) THEN
         LET index == StrToNat(Tail(str))
         IN IF index >= 0 /\ index < Len(dictionary) THEN Str(dictionary[index + 1]) ELSE Str(str)
  ELSE IF StartsWith(str, <<"\"">>) /\ EndsWith(str, <<"\"">>) /\ Len(str) >= 2 THEN Str(unquoteString(str))
  ELSE IF LooksLikeNumber(str) THEN ParseFloat(str)
  ELSE Str(str)

\* cell.lastIndexOf(c), counted from 0, -1 when absent
LastIndexOf(cell, c) ==
  IF ~Contains(cell, c) THEN -1
  ELSE (CHOOSE i \in 1..Len(cell) : cell[i] = c /\ ~Contains(Drop(cell, i), c)) - 1

Min(a, b) == IF a < b THEN a ELSE b

\* a clamp one below the limit
clampRepeatBelowLimit(count) ==
  IF count >= MAX_REPEAT_COUNT THEN MAX_REPEAT_COUNT - 1 ELSE IF count < 1 THEN 1 ELSE count

\* Math.min(parseInt(suffix, 10), MAX_REPEAT_COUNT), and 1 when that is below 1
clampRepeat(count) == IF Min(count, MAX_REPEAT_COUNT) < 1 THEN 1 ELSE Min(count, MAX_REPEAT_COUNT)

\* parseCell when the last star of the cell is at lastStarIndex (-1: none)
parseCellAt(cell, dictionary, lastStarIndex) ==
  IF /\ ~StartsWith(cell, <<"\"">>)
     /\ lastStarIndex > 0
     /\ Drop(cell, lastStarIndex + 1) # <<>>
     /\ AllIn(Drop(cell, lastStarIndex + 1), Digits)
  THEN [value |-> parsePrimitive(SubSeq(cell, 1, lastStarIndex), dictionary),
        repeat |-> clampRepeat(StrToNat(Drop(cell, lastStarIndex + 1)))]
  ELSE [value |-> parsePrimitive(cell, dictionary), repeat |-> 1]

parseCell(cell, dictionary) == parseCellAt(cell, dictionary, LastIndexOf(cell, "*"))

----------------------------------------------------------------------------
(* encode.ts                                                               *)

\* the option names of EncodeOptions without replacer; indent is [str |-> chars]
\* when it is a string
BASE_DEFAULTS ==
  [dictionary |-> TRUE, columnRefs |-> TRUE, runLength |-> TRUE,
   minDictLength |-> 3, minDictOccurrences |-> 2, maxDictEntries |-> 5,
   indent |-> [str |-> <<" ", " ">>], autoSort |-> FALSE, delimiter |-> ",",
   maxColumnRefDepth |-> 1, maxDictDepth |-> 2, arrayLengths |-> TRUE,
   tabularArrays |-> TRUE, minimalIndent |-> FALSE, schemaDefaults |-> FALSE,
   footerSummaries |-> FALSE, rowNumbers |-> FALSE]

MODE_PRESETS ==
  [llm |-> [dictionary |-> FALSE, columnRefs |-> FALSE, minimalIndent |-> TRUE,
            schemaDefaults |-> FALSE, footerSummaries |-> FALSE, rowNumbers |-> FALSE],
   compact |-> [dictionary |-> TRUE, columnRefs |-> TRUE, autoSort |-> TRUE,
                minimalIndent |-> TRUE, maxDictEntries |-> 0,
                maxColumnRefDepth |-> -1, maxDictDepth |-> -1],
   balanced |-> <<>>]

\* a merge in which the preset overrides the caller
mergeOptionsPresetLast(opt) ==
  LET mode == IF "mode" \in DOMAIN opt THEN opt.mode ELSE "llm"
  IN MODE_PRESETS[mode] @@ opt @@ BASE_DEFAULTS

\* { ...BASE_DEFAULTS, ...modeDefaults, ...options }
mergeOptions(opt) ==
  LET mode == IF "mode" \in DOMAIN opt THEN opt.mode ELSE "llm"
      modeDefaults == MODE_PRESETS[mode]
  IN opt @@ modeDefaults @@ BASE_DEFAULTS

Ok(lines) == [err |-> FALSE, lines |-> lines]

\* throw new GoonEncodeError(...)
Throw == [err |-> TRUE, lines |-> <<>>]

\* `${indent}${parentKey}` with parentKey <<>> for null and <<key>> otherwise
WithKey(indent, parentKey) == IF parentKey # <<>> THEN indent \o parentKey[1] ELSE indent

\* opts.maxDictDepth === -1 || depth <= opts.maxDictDepth
DictAt(opts, depth) == opts.maxDictDepth = -1 \/ depth <= opts.maxDictDepth

\* String(v ?? '')
ToSortString(v) ==
  IF v.t = "null" THEN <<>>
  ELSE IF v.t = "bool" THEN (IF v.b THEN <<"t", "r", "u", "e">> ELSE <<"f", "a", "l", "s", "e">>)
  ELSE IF v.t = "num" THEN NumToStr(v)
  ELSE v.s

autoSortForColumnRefs(arr, fields) ==
  LET maxRun == [f \in 1..Len(fields) |->
                   LET col == [r \in 1..Len(arr) |-> Get(arr[r], fields[f])]
                   IN CHOOSE c \in 1..Len(arr) :
                        /\ \E r \in 1..Len(arr) : Count(col, col[r]) = c
                        /\ \A r \in 1..Len(arr) : Count(col, col[r]) <= c]
      columnRepetitions == SortDescBy([f \in 1..Len(fields) |-> f], maxRun)
      sortFields == SubSeq(columnRepetitions, 1, Min(3, Len(columnRepetitions)))
      key(r, k) == ToSortString(Get(arr[r], fields[sortFields[k]]))
      \* the comparator returns -1 for rows a, b
      before(a, b) ==
        \E k \in 1..Len(sortFields) :
          /\ StrLess(key(a, k), key(b, k))
          /\ \A h \in 1..(k - 1) : key(a, h) = key(b, h)
  IN [p \in 1..Len(arr) |->
        arr[CHOOSE i \in 1..Len(arr) :
              Cardinality({j \in 1..Len(arr) :
                             before(j, i) \/ (~before(i, j) /\ j < i)}) = p - 1]]

\* the most common value of a column when it is in more than half of the rows
\* and more than once: <<value>>, else <<>>
fieldDefault(arr, field) ==
  LET col == [r \in 1..Len(arr) |-> Get(arr[r], field)]
      seen == Distinct(col)
      best == CHOOSE i \in 1..Len(seen) :
                /\ \A j \in 1..Len(seen) : Count(col, seen[j]) <= Count(col, seen[i])
                /\ \A j \in 1..(i - 1) : Count(col, seen[j]) < Count(col, seen[i])
      count == Count(col, seen[best])
  IN IF 2 * count > Len(arr) /\ count > 1 THEN <<seen[best]>> ELSE <<>>

\* a + b on decimals
NumAdd(a, b) ==
  LET e == IF a.e > b.e THEN a.e ELSE b.e
  IN Num(a.m * Pow10(e - a.e) + b.m * Pow10(e - b.e), e)

RECURSIVE NumSum(_)
NumSum(col) == IF col = <<>> THEN IntV(0) ELSE NumAdd(NumSum(SubSeq(col, 1, Len(col) - 1)), col[Len(col)])

\* Math.round((sum / count) * 100) / 100
NumAvg(sum, count) ==
  Num((200 * sum.m + Pow10(sum.e) * count) \div (2 * Pow10(sum.e) * count), 2)

RECURSIVE Flatten(_)
Flatten(seqs) == IF seqs = <<>> THEN <<>> ELSE Head(seqs) \o Flatten(Tail(seqs))

\* the defaults of the header fields: <<value>> for a field with a default, else <<>>
fieldDefaultsOf(arr, fields, opts) ==
  [f \in 1..Len(fields) |-> IF opts.schemaDefaults THEN fieldDefault(arr, fields[f]) ELSE <<>>]

\* `${lengthPrefix}{${fieldParts.join(opts.delimiter)}}:`
tabularHeader(arr, fields, fieldDefaults, opts, dictionary) ==
  (IF opts.arrayLengths THEN <<"[">> \o NatToStr(Len(arr)) \o <<"]">> ELSE <<>>) \o <<"{">> \o
  Join([f \in 1..Len(fields) |->
          IF fieldDefaults[f] # <<>>
          THEN fields[f] \o <<"=">> \o encodePrimitive(fieldDefaults[f][1], dictionary, FALSE)
          ELSE fields[f]],
       <<opts.delimiter>>) \o <<"}", ":">>

\* the cell of value v in row r (from 1) and column i, prev the value above it
tabularCell(v, prev, r, fieldDefault_i, useColumnRefs, opts, dictionary, useDictionary) ==
  IF useColumnRefs /\ r > 1 /\ v = prev /\ v.t # "null" THEN <<"^">>
  ELSE IF opts.schemaDefaults /\ fieldDefault_i # <<>> /\ v = fieldDefault_i[1] THEN <<>>
  ELSE encodePrimitive(v, dictionary, useDictionary)

\* the row lines of the table
tabularRows(sortedArr, fields, fieldDefaults, depth, useColumnRefs, opts, dictionary, useDictionary) ==
  [r \in 1..Len(sortedArr) |->
     (IF opts.minimalIndent THEN <<>> ELSE Repeat(opts.indent.str, depth + 1)) \o
     (IF opts.rowNumbers THEN NatToStr(r) \o <<".", " ">> ELSE <<>>) \o
     Join([i \in 1..Len(fields) |->
             tabularCell(Get(sortedArr[r], fields[i]),
                         IF r > 1 THEN Get(sortedArr[r - 1], fields[i]) ELSE Null,
                         r, fieldDefaults[i], useColumnRefs, opts, dictionary, useDictionary)],
          <<opts.delimiter>>)]

\* the sum and avg parts of one numeric column
columnSummary(field, sum, count) ==
  << field \o <<":", "s", "u", "m", "=">> \o NumToStr(sum),
     field \o <<":", "a", "v", "g", "=">> \o NumToStr(NumAvg(sum, count)) >>

\* the footer line, if any
tabularFooter(sortedArr, fields, depth, opts) ==
  LET isNumeric(f, r) == Get(sortedArr[r], fields[f]).t = "num"
      summary(f) ==
        IF \A r \in 1..Len(sortedArr) : isNumeric(f, r)
        THEN columnSummary(fields[f],
                           NumSum([r \in 1..Len(sortedArr) |-> Get(sortedArr[r], fields[f])]),
                           Len(sortedArr))
        ELSE <<>>
  IN IF opts.footerSummaries /\ (\E f \in 1..Len(fields), r \in 1..Len(sortedArr) : isNumeric(f, r))
     THEN << (IF opts.minimalIndent THEN <<>> ELSE Repeat(opts.indent.str, depth)) \o
             <<"-", "-", "-", "[">> \o
             Join(<< <<"n", "=">> \o NatToStr(Len(sortedArr)) >> \o
                  Flatten([f \in 1..Len(fields) |-> summary(f)]), <<",">>) \o <<"]">> >>
     ELSE <<>>

\* the lines of a table with at least one field, its rows in emission order
tabularLines(sortedArr, fields, fieldDefaults, depth, useColumnRefs, opts, dictionary, parentKey) ==
  << WithKey(Repeat(opts.indent.str, depth), parentKey) \o
     tabularHeader(sortedArr, fields, fieldDefaults, opts, dictionary) >> \o
  tabularRows(sortedArr, fields, fieldDefaults, depth, useColumnRefs, opts, dictionary,
              DictAt(opts, depth + 1)) \o
  tabularFooter(sortedArr, fields, depth, opts)

\* opts.columnRefs && (opts.maxColumnRefDepth === -1 || depth < opts.maxColumnRefDepth)
columnRefsAt(opts, depth) ==
  opts.columnRefs /\ (opts.maxColumnRefDepth = -1 \/ depth < opts.maxColumnRefDepth)

encodeTabularArray(arr, depth, opts, dictionary, parentKey) ==
  LET fields == SelectSeq(arr[1].keys, isSafeKey)
  IN IF Len(fields) = 0
     THEN << WithKey(Repeat(opts.indent.str, depth), parentKey) \o <<"[", "]">> >>
     ELSE tabularLines(IF opts.autoSort /\ columnRefsAt(opts, depth) /\ Len(arr) > 1
                       THEN autoSortForColumnRefs(arr, fields) ELSE arr,
                       fields, fieldDefaultsOf(arr, fields, opts), depth,
                       columnRefsAt(opts, depth), opts, dictionary, parentKey)

RECURSIVE encodeValue(_, _, _, _, _, _)
RECURSIVE encodeArray(_, _, _, _, _, _)
RECURSIVE encodeObject(_, _, _, _, _, _)

encodeValue(v, depth, opts, dictionary, parentKey, recursionDepth) ==
  IF encodeDepthExceeded(recursionDepth) THEN Throw
  ELSE IF isPrimitive(v) THEN
    Ok(<< Repeat(opts.indent.str, depth) \o
          (IF parentKey # <<>> THEN parentKey[1] \o <<":", " ">> ELSE <<>>) \o
          encodePrimitive(v, dictionary, DictAt(opts, depth)) >>)
  ELSE IF v.t = "arr" THEN
    encodeArray(v.items, depth, opts, dictionary, parentKey, recursionDepth + 1)
  ELSE encodeObject(v, depth, opts, dictionary, parentKey, recursionDepth + 1)

RECURSIVE listItems(_, _, _, _, _, _, _)

\* lines.push(`${itemIndent}-`) and the lines of the nested item
pushNestedItem(arr, depth, opts, dictionary, recursionDepth, i, acc, sub) ==
  IF sub.err THEN Throw
  ELSE listItems(arr, depth, opts, dictionary, recursionDepth, i + 1,
                 Append(acc, Repeat(opts.indent.str, depth + 1) \o <<"-">>) \o sub.lines)

\* the loop of encodeArray over the items of a list array from item i on,
\* the lines pushed so far in acc
listItems(arr, depth, opts, dictionary, recursionDepth, i, acc) ==
  IF i > Len(arr) THEN Ok(acc)
  ELSE IF isPrimitive(arr[i]) THEN
    listItems(arr, depth, opts, dictionary, recursionDepth, i + 1,
              Append(acc, Repeat(opts.indent.str, depth + 1) \o <<"-", " ">> \o
                          encodePrimitive(arr[i], dictionary, DictAt(opts, depth))))
  ELSE IF arr[i].t = "arr"
  THEN pushNestedItem(arr, depth, opts, dictionary, recursionDepth, i, acc,
                      encodeValue(arr[i], depth + 2, opts, dictionary, <<>>, recursionDepth + 1))
  ELSE pushNestedItem(arr, depth, opts, dictionary, recursionDepth, i, acc,
                      encodeObject(arr[i], depth + 2, opts, dictionary, <<>>, recursionDepth + 1))

\* `[${arr.length}]` or `[]`
lengthSuffix(arr, opts) ==
  IF opts.arrayLengths THEN <<"[">> \o NatToStr(Len(arr)) \o <<"]">> ELSE <<"[", "]">>

encodeArray(arr, depth, opts, dictionary, parentKey, recursionDepth) ==
  IF Len(arr) = 0 THEN Ok(<< WithKey(Repeat(opts.indent.str, depth), parentKey) \o <<"[", "]">> >>)
  ELSE IF opts.tabularArrays /\ isTabularArray(arr) THEN
    Ok(encodeTabularArray(arr, depth, opts, dictionary, parentKey))
  ELSE IF (\A i \in 1..Len(arr) : isPrimitive(arr[i])) /\ Len(arr) <= 10 THEN
    Ok(<< WithKey(Repeat(opts.indent.str, depth), parentKey) \o <<"[", "]", ":">> \o
          Join([i \in 1..Len(arr) |-> encodePrimitive(arr[i], dictionary, DictAt(opts, depth))],
               <<opts.delimiter>>) >>)
  ELSE listItems(arr, depth, opts, dictionary, recursionDepth, 1,
                 << WithKey(Repeat(opts.indent.str, depth), parentKey) \o
                    lengthSuffix(arr, opts) \o <<":">> >>)

RECURSIVE objectEntries(_, _, _, _, _, _, _, _)

\* the lines of a nested entry follow the lines pushed so far
pushNestedEntry(obj, childIndent, opts, dictionary, recursionDepth, safe, n, acc, sub) ==
  IF sub.err THEN Throw
  ELSE objectEntries(obj, childIndent, opts, dictionary, recursionDepth, safe, n + 1,
                     acc \o sub.lines)

\* the loop of encodeObject over the entries with safe keys from the n-th on,
\* the lines pushed so far in acc
objectEntries(obj, childIndent, opts, dictionary, recursionDepth, safe, n, acc) ==
  IF n > Len(safe) THEN Ok(acc)
  ELSE IF isPrimitive(obj.vals[safe[n]]) THEN
    objectEntries(obj, childIndent, opts, dictionary, recursionDepth, safe, n + 1,
                  Append(acc, Repeat(opts.indent.str, childIndent) \o obj.keys[safe[n]] \o
                              <<":", " ">> \o
                              encodePrimitive(obj.vals[safe[n]], dictionary,
                                              DictAt(opts, childIndent))))
  ELSE IF obj.vals[safe[n]].t = "arr"
  THEN pushNestedEntry(obj, childIndent, opts, dictionary, recursionDepth, safe, n, acc,
                       encodeArray(obj.vals[safe[n]].items, childIndent, opts, dictionary,
                                   <<obj.keys[safe[n]]>>, recursionDepth + 1))
  ELSE pushNestedEntry(obj, childIndent, opts, dictionary, recursionDepth, safe, n, acc,
                       encodeObject(obj.vals[safe[n]], childIndent, opts, dictionary,
                                    <<obj.keys[safe[n]]>>, recursionDepth + 1))

\* the indices of all the entries of obj: no isSafeKey filter
safeEntriesUnfiltered(obj) == [i \in 1..Len(obj.keys) |-> i]

\* the indices of the entries of obj with safe keys
safeEntries(obj) ==
  SelectIdx(Len(obj.keys), [i \in 1..Len(obj.keys) |-> isSafeKey(obj.keys[i])], 1)

encodeObject(obj, depth, opts, dictionary, parentKey, recursionDepth) ==
  IF encodeDepthExceeded(recursionDepth) THEN Throw
  ELSE IF Len(safeEntries(obj)) = 0
  THEN Ok(<< WithKey(Repeat(opts.indent.str, depth), parentKey) \o <<"{", "}">> >>)
  ELSE objectEntries(obj, IF parentKey # <<>> THEN depth + 1 ELSE depth, opts, dictionary,
                     recursionDepth, safeEntries(obj), 1,
                     IF parentKey # <<>>
                     THEN << Repeat(opts.indent.str, depth) \o parentKey[1] \o <<":">> >>
                     ELSE <<>>)

\* the dictionary encode and encodeLines build
dictionaryFor(v, opts) ==
  IF opts.dictionary
  THEN buildDictionary(v, opts.minDictLength, opts.minDictOccurrences, opts.maxDictEntries)
  ELSE NoDictionary

\* `$:${dictionary.entries.map((val, i) => `$${i}=${quoteString(val)}`).join(',')}`
dictionaryLine(dictionary) ==
  <<"$", ":">> \o
  Join([i \in 1..Len(dictionary.entries) |->
          <<"$">> \o NatToStr(i - 1) \o <<"=">> \o quoteString(dictionary.entries[i])],
       <<",">>)

\* the dictionary line, when there are entries, before the lines of the value
withDictLine(dictionary, body) ==
  IF body.err THEN Throw
  ELSE Ok((IF Len(dictionary.entries) > 0 THEN <<dictionaryLine(dictionary)>> ELSE <<>>) \o body.lines)

\* the lines of encode once the dictionary is built
linesWith(v, opts, dictionary) ==
  withDictLine(dictionary, encodeValue(v, 0, opts, dictionary, <<>>, 0))

\* encode once the options are merged
encodeMerged(v, opts) ==
  IF "str" \notin DOMAIN opts.indent THEN Throw
  ELSE linesWith(v, opts, dictionaryFor(v, opts))

\* lines.join('\n')
joinLines(r) == [err |-> r.err, text |-> Join(r.lines, <<"\n">>)]

\* encode(value, options) for options without a replacer:
\* [err |-> an error was thrown, text |-> the returned string]
encode(v, opt) == joinLines(encodeMerged(v, mergeOptions(opt)))

----------------------------------------------------------------------------
(* decode.ts                                                               *)

MAX_INPUT_SIZE == 10 * 1024 * 1024

\* new TextEncoder().encode(input).length: a no-break space is two bytes, every
\* other character of the model is one
ByteLength(input) == Len(input) + Len(SelectSeq(input, LAMBDA c : c = NBSP))

\* a size test that rejects the limit itself
sizeExceededInclusive(bytes) == bytes >= MAX_INPUT_SIZE

\* bytes > MAX_INPUT_SIZE
sizeExceeded(bytes) == bytes > MAX_INPUT_SIZE

\* validateInputSize throws
inputTooLarge(input) == sizeExceeded(ByteLength(input))

createSafeObject == Obj(<<>>, <<>>)

\* obj[key] = val
ObjSet(obj, key, val) ==
  IF \E i \in 1..Len(obj.keys) : obj.keys[i] = key
  THEN LET i == CHOOSE j \in 1..Len(obj.keys) : obj.keys[j] = key
       IN Obj(obj.keys, [obj.vals EXCEPT ![i] = val])
  ELSE Obj(Append(obj.keys, key), Append(obj.vals, val))

detectIndent(lines) ==
  LET indented == {i \in 1..Len(lines) : lines[i] # <<>> /\ lines[i][1] \in SpaceChars}
  IN IF indented = {} THEN <<" ", " ">>
     ELSE LET line == lines[CHOOSE i \in indented : \A j \in indented : i <= j]
              count == PrefixLen(line, {" "})
          IN IF line[1] = "\t" THEN <<"\t">> ELSE Repeat(<<" ">>, Min(count, 8))

\* the positions of line that do not continue a run of indent from its start
offIndent(line, indent) ==
  {i \in 1..Len(line) : line[i] # indent[((i - 1) % Len(indent)) + 1]}

\* the length of the run of copies of indent at the start of line, a last
\* incomplete copy included
indentRun(line, off) ==
  IF off = {} THEN Len(line) ELSE (CHOOSE i \in off : \A j \in off : i <= j) - 1

\* level: how many times the loop finds indent at the start of what remains
getIndentLevel(line, indent) ==
  IF Len(indent) = 0 THEN 0
  ELSE indentRun(line, offIndent(line, indent)) \div Len(indent)

RECURSIVE splitQuoted(_, _, _, _, _)
\* the character loop shared by parseDictionary and parseRow: the pieces of str
\* between the separators that stand outside quotes, the last piece included
splitQuoted(str, sep, current, inQuote, escaped) ==
  IF str = <<>> THEN <<current>>
  ELSE LET char == Head(str)
       IN IF escaped THEN splitQuoted(Tail(str), sep, Append(current, char), inQuote, FALSE)
          ELSE IF char = "\\" /\ inQuote THEN splitQuoted(Tail(str), sep, Append(current, char), inQuote, TRUE)
          ELSE IF char = "\"" THEN splitQuoted(Tail(str), sep, Append(current, char), ~inQuote, FALSE)
          ELSE IF char = sep /\ ~inQuote THEN <<current>> \o splitQuoted(Tail(str), sep, <<>>, inQuote, FALSE)
          ELSE splitQuoted(Tail(str), sep, Append(current, char), inQuote, FALSE)

parseDictionary(dictLine) ==
  LET pieces == splitQuoted(dictLine, ",", <<>>, FALSE, FALSE)
      trimmed == [i \in 1..Len(pieces) |-> Trim(pieces[i])]
      kept == SelectSeq(trimmed, LAMBDA t : t # <<>>)
  IN [i \in 1..Len(kept) |-> unquoteString(kept[i])]

RECURSIVE outsideQuotes(_, _)
\* the characters of str at which the loop of detectDelimiter sees inQuote false
outsideQuotes(str, inQuote) ==
  IF str = <<>> THEN <<>>
  ELSE IF (Head(str) = "\"") = inQuote
  THEN <<Head(str)>> \o outsideQuotes(Tail(str), FALSE)
  ELSE outsideQuotes(Tail(str), TRUE)

\* the delimiter for the counts of commas, pipes and tabs
mostCommon(commas, pipes, tabs) ==
  IF tabs > pipes /\ tabs > commas THEN "\t"
  ELSE IF pipes > commas THEN "|"
  ELSE ","

\* the delimiter for the characters counted
delimiterOf(counted) == mostCommon(Count(counted, ","), Count(counted, "|"), Count(counted, "\t"))

detectDelimiter(fieldsStr) == delimiterOf(outsideQuotes(fieldsStr, FALSE))

\* values.push(value) repeat times
repeatCell(c) == [r \in 1..c.repeat |-> c.value]

parseRow(rowStr, dictionary, delimiter) ==
  LET pieces == splitQuoted(rowStr, delimiter, <<>>, FALSE, FALSE)
      \* the piece after the last delimiter is pushed when current.trim() is not empty
      pushed == IF Trim(pieces[Len(pieces)]) # <<>> THEN Len(pieces) ELSE Len(pieces) - 1
  IN Flatten([i \in 1..pushed |-> repeatCell(parseCell(Trim(pieces[i]), dictionary))])

\* (?:\[\d*\])? at the start of rest: the length of what it matches
bracketLen(rest) ==
  LET digits == IF StartsWith(rest, <<"[">>) THEN PrefixLen(Tail(rest), Digits) ELSE 0
  IN IF StartsWith(rest, <<"[">>) /\ Len(rest) >= digits + 2 /\ rest[digits + 2] = "]"
     THEN digits + 2 ELSE 0

\* /^\{([^}]+)\}:?$/ on str: <<the group>> on a match, <<>> otherwise
matchBraces(str) ==
  LET n == IF str = <<>> THEN 0 ELSE PrefixLen(Tail(str), Chars(str) \ {"}"})
  IN IF /\ StartsWith(str, <<"{">>)
        /\ n >= 1
        /\ Len(str) >= n + 2
        /\ str[n + 2] = "}"
        /\ Drop(str, n + 2) \in {<<>>, <<":">>}
     THEN <<SubSeq(str, 2, n + 1)>>
     ELSE <<>>

\* /^(?:\[\d*\])?\{([^}]+)\}:?$/ on rest: <<the group>> on a match, <<>> otherwise
matchTabular(rest) == matchBraces(Drop(rest, bracketLen(rest)))

\* (.+)$ : one or more characters, none a line terminator
matchDotPlus(str) == str # <<>> /\ \A i \in 1..Len(str) : str[i] \notin LineTerminators

\* \s*(.+)$ on str: <<the group>> on a match, <<>> otherwise; \s* is greedy
matchSpacesDotPlus(str) ==
  LET js == {j \in 0..PrefixLen(str, SpaceChars) : matchDotPlus(Drop(str, j))}
  IN IF js = {} THEN <<>>
     ELSE <<Drop(str, CHOOSE j \in js : \A h \in js : h <= j)>>

\* /^([\w.]+)/ on str: the length of the key it matches, 0 for no match
keyLen(str) == PrefixLen(str, KeyChars)

\* a value with the cursor and depth counter after it; err: GoonDecodeError thrown
Ret(val, index, depth) == [val |-> val, index |-> index, depth |-> depth, err |-> FALSE]

Raise(index, depth) == [val |-> Null, index |-> index, depth |-> depth, err |-> TRUE]

\* finally { ctx.depth--; }
Leave(r) == [r EXCEPT !.depth = r.depth - 1]

\* rowValues[i]: cells[i] === '^' && prevRowValues[i] !== undefined
\*   ? prevRowValues[i] : cells[i] ?? null      (i counted from 1)
columnValue(cells, prevRowValues, i) ==
  IF i <= Len(cells) /\ cells[i] = Str(<<"^">>) /\ i <= Len(prevRowValues)
  THEN prevRowValues[i]
  ELSE IF i <= Len(cells) THEN cells[i] ELSE Null

\* the values of a row: one per field
rowValuesOf(fields, cells, prevRowValues) ==
  [i \in 1..Len(fields) |-> columnValue(cells, prevRowValues, i)]

\* a row object with one field more than the header has
buildRowWithExtraField(fields, rowValues, i, obj) ==
  Obj(fields \o <<<<"e", "x", "t", "r", "a">>>>, rowValues \o <<Null>>)

RECURSIVE buildRow(_, _, _, _)
\* obj[fields[i]] = rowValues[i] for the fields from i on
buildRow(fields, rowValues, i, obj) ==
  IF i > Len(fields) THEN obj
  ELSE buildRow(fields, rowValues, i + 1, ObjSet(obj, fields[i], rowValues[i]))

\* the line is a key line or a dictionary line: the table has ended
endsTable(trimmed) ==
  \/ /\ keyLen(trimmed) >= 1
     /\ Len(trimmed) > keyLen(trimmed)
     /\ trimmed[keyLen(trimmed) + 1] \in {":", "[", "{"}
  \/ StartsWith(trimmed, <<"$", ":">>)

RECURSIVE parseObject(_, _, _, _)
RECURSIVE parseListArray(_, _, _, _)
RECURSIVE parseNestedValue(_, _, _, _)
RECURSIVE tabularLoop(_, _, _, _, _, _, _, _)
RECURSIVE objectLoop(_, _, _, _, _)
RECURSIVE listLoop(_, _, _, _, _)

\* rows.push(obj); prevRowValues = rowValues; ctx.index++
tabularRow(env, depth, baseIndent, delimiter, fields, index, rows, rowValues) ==
  tabularLoop(env, depth, baseIndent, delimiter, fields, index + 1,
              Append(rows, buildRow(fields, rowValues, 1, createSafeObject)), rowValues)

\* the while loop of parseTabularArray with the cursor at index
tabularLoop(env, depth, baseIndent, delimiter, fields, index, rows, prevRowValues) ==
  IF index >= Len(env.lines) THEN Ret(Arr(rows), index, depth)
  ELSE IF getIndentLevel(env.lines[index + 1], env.indent) < baseIndent
  THEN Ret(Arr(rows), index, depth)
  ELSE IF Trim(env.lines[index + 1]) = <<>>
  THEN tabularLoop(env, depth, baseIndent, delimiter, fields, index + 1, rows, prevRowValues)
  ELSE IF endsTable(Trim(env.lines[index + 1])) THEN Ret(Arr(rows), index, depth)
  ELSE tabularRow(env, depth, baseIndent, delimiter, fields, index, rows,
                  rowValuesOf(fields,
                              parseRow(Trim(env.lines[index + 1]), env.dictionary, delimiter),
                              prevRowValues))

\* fieldsStr.split(delimiter).filter(isSafeKey)
tabularFields(fieldsStr, delimiter) == SelectSeq(Split(fieldsStr, delimiter), isSafeKey)

parseTabularArray(env, index0, depth0, baseIndent, fieldsStr) ==
  IF decodeDepthExceeded(depth0 + 1) THEN Raise(index0, depth0 + 1)
  ELSE Leave(tabularLoop(env, depth0 + 1, baseIndent, detectDelimiter(fieldsStr),
                         tabularFields(fieldsStr, detectDelimiter(fieldsStr)),
                         index0 + 1, <<>>, <<>>))

\* obj[key] = value for a safe key; ctx.index++
objectAssign(env, depth, baseIndent, index, obj, key, val) ==
  objectLoop(env, depth, baseIndent, index + 1,
             IF isSafeKey(key) THEN ObjSet(obj, key, val) ELSE obj)

\* obj[key] = what the nested parser returned, the cursor where it left it
objectAssignParsed(env, depth, baseIndent, obj, key, r) ==
  IF r.err THEN r ELSE objectLoop(env, depth, baseIndent, r.index, ObjSet(obj, key, r.val))

\* an object body that raises on a line without a key and passes over the rest
objectEntryStrict(env, depth, baseIndent, index, obj, currentIndent, key, rest) ==
  IF key = <<>> THEN Raise(index, depth)
  ELSE objectLoop(env, depth, baseIndent, index + 1, obj)

\* a line at the indent of the object: key its [\w.]+ prefix, rest what follows it
objectEntry(env, depth, baseIndent, index, obj, currentIndent, key, rest) ==
  IF key = <<>> THEN objectLoop(env, depth, baseIndent, index + 1, obj)
  ELSE IF StartsWith(rest, <<":">>) /\ matchSpacesDotPlus(Tail(rest)) # <<>> THEN
    objectAssign(env, depth, baseIndent, index, obj, key,
                 parsePrimitive(Trim(matchSpacesDotPlus(Tail(rest))[1]), env.dictionary))
  ELSE IF rest = <<"{", "}">> THEN
    objectAssign(env, depth, baseIndent, index, obj, key, createSafeObject)
  ELSE IF rest = <<"[", "]">> THEN
    objectAssign(env, depth, baseIndent, index, obj, key, Arr(<<>>))
  ELSE IF matchTabular(rest) # <<>> THEN
    IF isSafeKey(key)
    THEN objectAssignParsed(env, depth, baseIndent, obj, key,
                            parseTabularArray(env, index, depth, currentIndent, matchTabular(rest)[1]))
    ELSE objectLoop(env, depth, baseIndent, index + 1, obj)
  ELSE IF StartsWith(rest, <<"[", "]", ":">>) /\ matchDotPlus(Drop(rest, 3)) THEN
    objectAssign(env, depth, baseIndent, index, obj, key,
                 Arr(parseRow(Drop(rest, 3), env.dictionary, detectDelimiter(Drop(rest, 3)))))
  ELSE IF rest = <<"[", "]">> THEN
    IF isSafeKey(key)
    THEN objectAssignParsed(env, depth, baseIndent, obj, key,
                            parseListArray(env, index, depth, currentIndent))
    ELSE objectLoop(env, depth, baseIndent, index + 1, obj)
  ELSE IF rest \in {<<>>, <<":">>} THEN
    IF /\ index + 1 < Len(env.lines)
       /\ isSafeKey(key)
       /\ getIndentLevel(env.lines[index + 2], env.indent) > currentIndent
    THEN objectAssignParsed(env, depth, baseIndent, obj, key,
                            parseObject(env, index + 1, depth,
                                        getIndentLevel(env.lines[index + 2], env.indent)))
    ELSE objectAssign(env, depth, baseIndent, index, obj, key, Null)
  ELSE objectLoop(env, depth, baseIndent, index + 1, obj)

\* a line of the text with its indent level, trimmed
objectLine(env, depth, baseIndent, index, obj, currentIndent, trimmed) ==
  IF currentIndent < baseIndent THEN Ret(obj, index, depth)
  ELSE IF currentIndent > baseIndent THEN objectLoop(env, depth, baseIndent, index + 1, obj)
  ELSE objectEntry(env, depth, baseIndent, index, obj, currentIndent,
                   SubSeq(trimmed, 1, keyLen(trimmed)), Drop(trimmed, keyLen(trimmed)))

\* the while loop of parseObject with the cursor at index
objectLoop(env, depth, baseIndent, index, obj) ==
  IF index >= Len(env.lines) THEN Ret(obj, index, depth)
  ELSE objectLine(env, depth, baseIndent, index, obj,
                  getIndentLevel(env.lines[index + 1], env.indent), Trim(env.lines[index + 1]))

parseObject(env, index0, depth0, baseIndent) ==
  IF decodeDepthExceeded(depth0 + 1) THEN Raise(index0, depth0 + 1)
  ELSE Leave(objectLoop(env, depth0 + 1, baseIndent, index0, createSafeObject))

\* items.push(what the nested parser returned), the cursor where it left it
listPushParsed(env, depth, baseIndent, items, r) ==
  IF r.err THEN r ELSE listLoop(env, depth, baseIndent, r.index, Append(items, r.val))

\* a line of the text with its indent level, trimmed
listLine(env, depth, baseIndent, index, items, currentIndent, trimmed) ==
  IF currentIndent <= baseIndent THEN Ret(Arr(items), index, depth)
  ELSE IF StartsWith(trimmed, <<"-", " ">>) THEN
    listLoop(env, depth, baseIndent, index + 1,
             Append(items, parsePrimitive(Drop(trimmed, 2), env.dictionary)))
  ELSE IF trimmed = <<"-">> THEN
    IF /\ index + 1 < Len(env.lines)
       /\ getIndentLevel(env.lines[index + 2], env.indent) > currentIndent
    THEN listPushParsed(env, depth, baseIndent, items,
                        parseNestedValue(env, index + 1, depth,
                                         getIndentLevel(env.lines[index + 2], env.indent)))
    ELSE listLoop(env, depth, baseIndent, index + 1, Append(items, Null))
  ELSE listLoop(env, depth, baseIndent, index + 1, items)

\* the while loop of parseListArray with the cursor at index
listLoop(env, depth, baseIndent, index, items) ==
  IF index >= Len(env.lines) THEN Ret(Arr(items), index, depth)
  ELSE listLine(env, depth, baseIndent, index, items,
                getIndentLevel(env.lines[index + 1], env.indent), Trim(env.lines[index + 1]))

parseListArray(env, index0, depth0, baseIndent) ==
  IF decodeDepthExceeded(depth0 + 1) THEN Raise(index0, depth0 + 1)
  ELSE Leave(listLoop(env, depth0 + 1, baseIndent, index0 + 1, <<>>))

\* the line looks like the first entry of an object: /^[\w.]+[:\[{]/ or /^[\w.]+$/
looksLikeObject(trimmed) ==
  /\ keyLen(trimmed) >= 1
  /\ \/ Len(trimmed) = keyLen(trimmed)
     \/ trimmed[keyLen(trimmed) + 1] \in {":", "{", "["}

\* parseNestedValue on the line at the cursor, trimmed
nestedValue(env, index, depth, minIndent, trimmed) ==
  IF trimmed = <<"{", "}">> THEN Ret(createSafeObject, index + 1, depth)
  ELSE IF trimmed = <<"[", "]">> THEN Ret(Arr(<<>>), index + 1, depth)
  ELSE IF matchTabular(Drop(trimmed, keyLen(trimmed))) # <<>> THEN
    IF keyLen(trimmed) >= 1 THEN parseObject(env, index, depth, minIndent)
    ELSE parseTabularArray(env, index, depth, minIndent - 1, matchTabular(trimmed)[1])
  ELSE IF \/ trimmed = <<"[", "]">>
          \/ keyLen(trimmed) >= 1 /\ Drop(trimmed, keyLen(trimmed)) = <<"[", "]">>
  THEN parseObject(env, index, depth, minIndent)
  ELSE IF looksLikeObject(trimmed) THEN parseObject(env, index, depth, minIndent)
  ELSE Ret(parsePrimitive(trimmed, env.dictionary), index + 1, depth)

parseNestedValue(env, index, depth, minIndent) ==
  IF index >= Len(env.lines) THEN Ret(Null, index, depth)
  ELSE nestedValue(env, index, depth, minIndent, Trim(env.lines[index + 1]))

\* parseRoot on the first line of the value, trimmed
rootValue(env, index, depth, firstLine) ==
  IF firstLine = <<"{", "}">> THEN Ret(createSafeObject, index + 1, depth)
  ELSE IF firstLine = <<"[", "]">> THEN Ret(Arr(<<>>), index + 1, depth)
  ELSE IF matchTabular(firstLine) # <<>> THEN
    parseTabularArray(env, index, depth, -1, matchTabular(firstLine)[1])
  ELSE IF StartsWith(firstLine, <<"[", "]", ":">>) /\ matchDotPlus(Drop(firstLine, 3)) THEN
    Ret(Arr(parseRow(Drop(firstLine, 3), env.dictionary, detectDelimiter(Drop(firstLine, 3)))),
        index + 1, depth)
  ELSE IF firstLine = <<"[", "]">> THEN parseListArray(env, index, depth, -1)
  ELSE IF looksLikeObject(firstLine) THEN parseObject(env, index, depth, 0)
  ELSE Ret(parsePrimitive(firstLine, env.dictionary), index + 1, depth)

parseRoot(env, index, depth) ==
  IF index >= Len(env.lines) THEN Ret(Null, index, depth)
  ELSE rootValue(env, index, depth, Trim(env.lines[index + 1]))

\* const lines = input.split('\n').filter(line => line.trim() !== '')
nonEmptyLines(input) == SelectSeq(Split(input, "\n"), LAMBDA line : Trim(line) # <<>>)

\* the dictionary of the text: parseDictionary(lines[0].slice(2)) after a `$:` line
dictionaryOfLines(lines) ==
  IF StartsWith(lines[1], <<"$", ":">>) THEN parseDictionary(Drop(lines[1], 2)) ELSE <<>>

\* startIndex: 1 after a dictionary line, else 0
startIndex(lines) == IF StartsWith(lines[1], <<"$", ":">>) THEN 1 ELSE 0

\* decode once the lines are split
decodeLines(lines) ==
  IF Len(lines) = 0 THEN Ret(Null, 0, 0)
  ELSE IF startIndex(lines) >= Len(lines) THEN Ret(Null, startIndex(lines), 0)
  ELSE parseRoot([lines |-> lines, dictionary |-> dictionaryOfLines(lines),
                  indent |-> detectIndent(lines)], startIndex(lines), 0)

\* decode(input) without a reviver
decode(input) ==
  IF inputTooLarge(input) THEN Raise(0, 0)
  ELSE decodeLines(nonEmptyLines(input))

----------------------------------------------------------------------------
(* The codec as a state machine: a caller holds a value and options, calls  *)
(* encode, and hands the returned text to decode.                           *)

RECURSIVE DeepEqual(_, _)
\* deep equality of two values; the order of an object's keys does not count
DeepEqual(a, b) ==
  IF a.t # b.t THEN FALSE
  ELSE IF a.t = "arr" THEN
    /\ Len(a.items) = Len(b.items)
    /\ \A i \in 1..Len(a.items) : DeepEqual(a.items[i], b.items[i])
  ELSE IF a.t = "obj" THEN
    /\ Chars(a.keys) = Chars(b.keys)
    /\ \A i \in 1..Len(a.keys) : DeepEqual(a.vals[i], Get(b, a.keys[i]))
  ELSE a = b

\* no descent in progress
NoFrame == [fn |-> "none"]

Start(v, opt) ==
  /\ phase = "input"
  /\ value = v
  /\ options = opt
  /\ encoded = [err |-> FALSE, text |-> <<>>]
  /\ decoded = Ret(Null, 0, 0)
  /\ frame = NoFrame

\* the caller calls encode(value, options)
Encode ==
  /\ phase = "input"
  /\ encoded' = encode(value, options)
  /\ phase' = "encoded"
  /\ UNCHANGED <<value, options, decoded, frame>>

\* the caller calls decode on the string encode returned
Decode ==
  /\ phase = "encoded"
  /\ ~encoded.err
  /\ decoded' = decode(encoded.text)
  /\ phase' = "decoded"
  /\ UNCHANGED <<value, options, encoded, frame>>

\* the caller holds a text of its own
StartText(text) ==
  /\ phase = "text"
  /\ value = Null
  /\ options = <<>>
  /\ encoded = [err |-> FALSE, text |-> text]
  /\ decoded = Ret(Null, 0, 0)
  /\ frame = NoFrame

\* the caller calls decode on its text
DecodeText ==
  /\ phase = "text"
  /\ decoded' = decode(encoded.text)
  /\ phase' = "decoded"
  /\ UNCHANGED <<value, options, encoded, frame>>

Next == Encode \/ Decode

----------------------------------------------------------------------------
(* Inputs: the values and options a caller passes                          *)

\* numbers of the inputs are the integers -MaxNum..MaxNum
MaxNum == 2

\* a table of the inputs has 1..MaxRows rows
MaxRows == 2

\* a list array of the inputs has 1..MaxItems items
MaxItems == 2

\* the strings of the escaping inputs have 1..MaxEscLen characters
MaxEscLen == 2

\* sequences over set of length lo..hi
SeqsOf(set, lo, hi) == UNION {[1..n -> set] : n \in lo..hi}

DefaultOptions == <<>>

PresetOptions == {[mode |-> "llm"], [mode |-> "compact"], [mode |-> "balanced"]}

CallerOptions == {DefaultOptions} \cup PresetOptions

Words == {<<"A", "l", "i", "c", "e">>, <<"B", "o", "b">>}

SampleStrings == Words \cup {<<>>, <<"h", "e", "l", "l", "o">>, <<"a", " ", "b">>, <<"T">>, <<"4", "2">>, <<"$", "0">>}

Numbers == {IntV(n) : n \in -MaxNum..MaxNum}

RootPrimitives ==
  {Null, Bool(TRUE), Bool(FALSE), Num(15, 1)} \cup Numbers \cup {Str(w) : w \in SampleStrings}

Rows == {Obj(<<<<"i", "d">>, <<"n", "a", "m", "e">>>>, <<IntV(n), Str(w)>>) : n \in 1..MaxNum, w \in Words}

Tables == {Arr(rows) : rows \in SeqsOf(Rows, 1, MaxRows)}

\* a table as the field of the root object and as the field of a nested object
KeyedTables ==
  {Obj(<<<<"u", "s", "e", "r", "s">>>>, <<t>>) : t \in Tables} \cup
  {Obj(<<<<"t", "e", "a", "m">>>>, <<Obj(<<<<"u", "s", "e", "r", "s">>>>, <<t>>)>>) : t \in Tables}

ListItems ==
  {IntV(1), Str(<<"a">>), Null, Arr(<<IntV(2), IntV(3)>>), Obj(<<<<"k">>>>, <<Bool(TRUE)>>),
   Obj(<<<<"k">>, <<"n">>>>, <<Null, IntV(1)>>)}

isBlockList(arr) ==
  /\ Len(arr) > 0
  /\ ~isTabularArray(arr)
  /\ ~((\A i \in 1..Len(arr) : isPrimitive(arr[i])) /\ Len(arr) <= 10)

Lists ==
  {Arr(items) : items \in {l \in SeqsOf(ListItems, 1, MaxItems) : isBlockList(l)}} \cup
  {Arr([i \in 1..11 |-> IntV(i % (MaxNum + 1))])}

ListValues == Lists \cup {Obj(<<<<"i", "t", "e", "m", "s">>>>, <<l>>) : l \in Lists}

KeyPool == {<<"k">>, <<"a", ".", "b">>, <<"x", "_", "1">>, <<"a", " ", "b">>, <<"a", "-", "b">>, <<"a", ":", "b">>, <<"f", "i", "r", "s", "t", " ", "n", "a", "m", "e">>}

KeyPairs == {p \in KeyPool \X KeyPool : p[1] # p[2]}

KeyObjects ==
  {Obj(<<k>>, <<IntV(1)>>) : k \in KeyPool} \cup
  {Obj(<<p[1], p[2]>>, <<IntV(1), Str(<<"x">>)>>) : p \in KeyPairs}

Delimiters == {",", "|", "\t"}

\* strings that contain the delimiter d
DelimiterStrings(d) == {<<"x", d, "y">>, <<d>>, <<"a", d>>}

\* a cell of a table and an element of an inline array holding the string
DelimiterValues(d) ==
  {Arr(<<Obj(<<<<"a">>, <<"b">>>>, <<Str(str), IntV(1)>>)>>) : str \in DelimiterStrings(d)} \cup
  {Arr(<<Str(str), Str(<<"z">>)>>) : str \in DelimiterStrings(d)} \cup
  {Obj(<<<<"t">>>>, <<Arr(<<Str(<<"z">>), Str(str)>>)>>) : str \in DelimiterStrings(d)}

LongWords == {<<"a", "d", "m", "i", "n", "i", "s", "t", "r", "a", "t", "o", "r">>, <<"m", "o", "d", "e", "r", "a", "t", "o", "r", "s">>}

\* values in which a string long enough to be interned is repeated
RepeatedStringValues ==
  {Obj(<<<<"r">>>>, <<Arr(<<Str(w), Str(w), Str(w)>>)>>) : w \in LongWords} \cup
  {Arr([i \in 1..3 |-> Obj(<<<<"i", "d">>, <<"r", "o", "l", "e">>>>, <<IntV(i), Str(w)>>)]) : w \in LongWords} \cup
  {Obj(<<<<"a">>, <<"b">>, <<"c">>, <<"d">>, <<"e">>, <<"f">>>>,
       <<Str(w), Str(v), Str(w), Str(v), Str(w), Str(v)>>) : w \in LongWords, v \in LongWords}

DictionaryOptions == {[mode |-> "compact"], [mode |-> "balanced"], [dictionary |-> TRUE]}

EscAlphabet == {"a", " ", "\"", "\\", "\n", "\r", "\t"}

EscapeValues == {Obj(<<<<"k">>>>, <<Str(str)>>) : str \in SeqsOf(EscAlphabet, 1, MaxEscLen)}

\* the cells of the identical-row tables: non-null numbers, booleans, plain words
PlainCells == {IntV(1), IntV(-2), Bool(TRUE), Bool(FALSE), Str(<<"x">>), Str(<<"A", "c", "m", "e">>)}

\* an identical-row table has 1..MaxCols columns
MaxCols == 2

\* an identical-row table has 2..MaxCopies rows
MaxCopies == 3

ColumnNames == << <<"a">>, <<"b">>, <<"c">>, <<"d">> >>

\* tables of n copies of one row
IdenticalRowTables ==
  {Arr([r \in 1..n |-> Obj(SubSeq(ColumnNames, 1, Len(cells)), cells)]) :
     cells \in SeqsOf(PlainCells, 1, MaxCols), n \in 2..MaxCopies}

\* the table at the root, as a field of the root object, as a field of a nested object
IdenticalRowValues ==
  IdenticalRowTables \cup
  {Obj(<<<<"t">>>>, <<t>>) : t \in IdenticalRowTables} \cup
  {Obj(<<<<"o">>>>, <<Obj(<<<<"t">>>>, <<t>>)>>) : t \in IdenticalRowTables}

\* options with column references and without the dictionary
ColumnRefOptions ==
  {[mode |-> "balanced", dictionary |-> FALSE], [mode |-> "compact", dictionary |-> FALSE],
   [columnRefs |-> TRUE]}

Init ==
  \/ \E v \in RootPrimitives \cup Tables \cup KeyedTables \cup ListValues \cup KeyObjects,
        o \in CallerOptions : Start(v, o)
  \/ \E d \in Delimiters, m \in {"llm", "balanced"} :
       \E v \in DelimiterValues(d) : Start(v, [delimiter |-> d, mode |-> m])
  \/ \E v \in RepeatedStringValues, o \in DictionaryOptions : Start(v, o)
  \/ \E v \in EscapeValues : Start(v, DefaultOptions)
  \/ \E v \in IdenticalRowValues, o \in ColumnRefOptions : Start(v, o)

Spec == Init /\ [][Next]_vars

----------------------------------------------------------------------------
(* Strings shaped like a token of the format, as the value of a field      *)

ShapeAlphabet ==
  {"T", "F", "_", "~", "^", "$", "-", ".", "0", "1", "*", "a", "\"", "\\", " ", ":", ","}

\* the token-shaped strings have 1..MaxShapeLen characters
MaxShapeLen == 3

\* a literal token, the reference shape, the number shape, or `*` and digits at the end
ShapeStrings ==
  {str \in SeqsOf(ShapeAlphabet, 1, MaxShapeLen) :
     \/ str \in {<<"T">>, <<"F">>, <<"_">>, <<"~">>, <<"^">>}
     \/ LooksLikeReference(str)
     \/ LooksLikeNumber(str)
     \/ LooksLikeRunLength(str)}

InitShapeStrings ==
  \E str \in ShapeStrings, o \in PresetOptions : Start(Obj(<<<<"k">>>>, <<Str(str)>>), o)

SpecShapeStrings == InitShapeStrings /\ [][Next]_vars

----------------------------------------------------------------------------
(* The properties of the codec                                             *)

\* the options encode works with
Merged == mergeOptions(options)

\* the field key of v, null when v is no object or has no such key
FieldOr(v, key) == IF v.t = "obj" /\ key \in Chars(v.keys) THEN Get(v, key) ELSE Null

\* C1: for every value and every preset m in {llm, compact, balanced},
\* decode(encode(v, {mode: m})) is deep-equal to v
RoundTripUnderPresets ==
  (phase = "decoded" /\ options \in PresetOptions) =>
    (~decoded.err /\ DeepEqual(decoded.val, value))

\* the strings the encoder interned, in the order of their positions
Interned == dictionaryFor(value, Merged).entries

\* C2: with the dictionary enabled and a string interned, decode resolves every
\* reference $N to the string interned at position N, and the strings replaced
\* by references are restored
ReferencesResolve ==
  (phase = "decoded" /\ Merged.dictionary /\ Interned # <<>>) =>
    /\ \A i \in 1..Len(Interned) :
         parsePrimitive(<<"$">> \o NatToStr(i - 1), dictionaryOfLines(nonEmptyLines(encoded.text)))
           = Str(Interned[i])
    /\ ~decoded.err
    /\ DeepEqual(decoded.val, value)

\* C3: under default options a table stored under a key of the root object or of
\* a nested object is decoded, under the same key, with every row and its cells
KeyedTableRoundTrip ==
  (phase = "decoded" /\ options = DefaultOptions /\ value \in KeyedTables) =>
    /\ ~decoded.err
    /\ IF value.vals[1].t = "arr"
       THEN DeepEqual(FieldOr(decoded.val, value.keys[1]), value.vals[1])
       ELSE DeepEqual(FieldOr(FieldOr(decoded.val, value.keys[1]), value.vals[1].keys[1]),
                      value.vals[1].vals[1])

\* C4: an array emitted as a block list decodes to an array with the same
\* elements in the same order
BlockListRoundTrip ==
  (phase = "decoded" /\ value \in ListValues) =>
    (~decoded.err /\ DeepEqual(decoded.val, value))

\* C5: decode(encode(p)) = p for every top-level primitive p
RootPrimitiveRoundTrip ==
  (phase = "decoded" /\ isPrimitive(value)) => (~decoded.err /\ decoded.val = value)

\* C6: for an object whose keys are safe non-empty strings, decode(encode(o))
\* has exactly the key set of o
KeySetPreserved ==
  (phase = "decoded" /\ value \in KeyObjects) =>
    /\ ~decoded.err
    /\ decoded.val.t = "obj"
    /\ Chars(decoded.val.keys) = Chars(value.keys)

\* C7: a table cell or inline-array element holding a string that contains the
\* delimiter in use decodes to a single cell with the same string
DelimiterStringRoundTrip ==
  (phase = "decoded" /\ value \in DelimiterValues(Merged.delimiter)) =>
    (~decoded.err /\ DeepEqual(decoded.val, value))

\* the table of an identical-row value and the depth encode reaches it at
TableOf(v) ==
  IF v.t = "arr" THEN v ELSE IF v.vals[1].t = "arr" THEN v.vals[1] ELSE v.vals[1].vals[1]

TableDepth(v) == IF v.t = "arr" \/ v.vals[1].t = "arr" THEN 0 ELSE 1

\* C8: with column references enabled at the depth of the table and the
\* dictionary disabled, a table of N >= 2 identical rows is emitted with no ^ in
\* its first row and ^ in every cell of the N-1 later rows, and decoding the
\* text gives the N rows back
IdenticalRowsRoundTrip ==
  (/\ phase = "decoded"
   /\ value \in IdenticalRowValues
   /\ ~Merged.dictionary
   /\ columnRefsAt(Merged, TableDepth(value))) =>
    LET lines == Split(encoded.text, "\n")
        n == Len(TableOf(value).items)
        cols == Len(TableOf(value).items[1].keys)
    IN /\ Len(lines) > n
       /\ ~Contains(lines[Len(lines) - n + 1], "^")
       /\ \A r \in (Len(lines) - n + 2)..Len(lines) :
            Trim(lines[r]) = Join([i \in 1..cols |-> <<"^">>], <<Merged.delimiter>>)
       /\ ~decoded.err
       /\ DeepEqual(decoded.val, value)

EscapingRoundTrip ==
  (phase = "decoded" /\ value \in EscapeValues) => (~decoded.err /\ decoded.val = value)

----------------------------------------------------------------------------
(* Unsafe keys on encode                                                   *)

\* the string s has sub as a substring
HasSubstring(s, sub) ==
  \E i \in 1..(Len(s) - Len(sub) + 1) : SubSeq(s, i, i + Len(sub) - 1) = sub

Evil == Str(<<"e", "v", "i", "l">>)

\* the values stored under an unsafe key k
UnsafePayloads(k) ==
  {Evil, Obj(<<k>>, <<Evil>>), Obj(<<<<"t">>, k>>, <<Bool(TRUE), Evil>>),
   Arr(<<Obj(<<k>>, <<Evil>>), Obj(<<k>>, <<Evil>>)>>),
   Arr(<<IntV(1), Obj(<<k>>, <<Evil>>)>>)}

\* objects, tables and lists in which an unsafe key stands beside the key n; no
\* string value of them holds an unsafe name
UnsafeKeyValues ==
  UNION {
    {Obj(<<<<"n">>, k>>, <<IntV(1), w>>) : w \in UnsafePayloads(k)} \cup
    {Obj(<<k, <<"n">>>>, <<w, IntV(1)>>) : w \in UnsafePayloads(k)} \cup
    {Obj(<<<<"n">>>>, <<Obj(<<k, <<"m">>>>, <<w, Null>>)>>) : w \in UnsafePayloads(k)} \cup
    {Arr(<<Obj(<<<<"n">>, k>>, <<IntV(1), Evil>>), Obj(<<<<"n">>, k>>, <<IntV(2), Evil>>)>>),
     Obj(<<<<"n">>>>, <<Arr(<<Obj(<<k, <<"m">>>>, <<Evil, IntV(1)>>),
                            Obj(<<k, <<"m">>>>, <<Evil, IntV(1)>>)>>)>>),
     Arr(<<Obj(<<k>>, <<Evil>>), IntV(1), Arr(<<Obj(<<k, <<"m">>>>, <<Null, Null>>)>>)>>)}
    : k \in DANGEROUS_KEYS}

InitUnsafeKeys == \E v \in UnsafeKeyValues, o \in CallerOptions : Start(v, o)

SpecUnsafeKeys == InitUnsafeKeys /\ [][Next]_vars

----------------------------------------------------------------------------
(* Unsafe keys on decode                                                   *)

\* a text has 1..MaxTextLines lines
MaxTextLines == 3

UnsafeNames == {<<"_", "_", "p", "r", "o", "t", "o", "_", "_">>, <<"c", "o", "n", "s", "t", "r", "u", "c", "t", "o", "r">>}

\* lines that name the key k, and lines to stand around them
UnsafeLines(k) ==
  {k \o <<":", " ", "e", "v", "i", "l">>,
   k \o <<"{", "a", ",", "b", "}", ":">>,
   k \o <<"[", "]", ":", "1", ",", "2">>,
   <<"t", "{", "a", ",">> \o k \o <<"}", ":">>,
   <<"{">> \o k \o <<",", "a", "}", ":">>,
   <<"1", ",", "2">>,
   <<" ", " ">> \o k \o <<":", " ", "e", "v", "i", "l">>,
   <<"n", "o", "r", "m", "a", "l", ":", " ", "g", "o", "o", "d">>,
   <<"o", ":">>,
   k \o <<":">>}

\* the texts of 1..n lines
UnsafeTexts(n) ==
  UNION {{Join(lines, <<"\n">>) : lines \in SeqsOf(UnsafeLines(k), 1, n)} : k \in UnsafeNames}

InitUnsafeTexts == \E text \in UnsafeTexts(MaxTextLines) : StartText(text)

SpecUnsafeTexts == InitUnsafeTexts /\ [][DecodeText]_vars

RECURSIVE HasUnsafeKey(_)
\* an object at some depth of v has an unsafe key
HasUnsafeKey(v) ==
  IF v.t = "obj"
  THEN \/ \E i \in 1..Len(v.keys) : v.keys[i] \in DANGEROUS_KEYS
       \/ \E i \in 1..Len(v.vals) : HasUnsafeKey(v.vals[i])
  ELSE IF v.t = "arr" THEN \E i \in 1..Len(v.items) : HasUnsafeKey(v.items[i])
  ELSE FALSE

----------------------------------------------------------------------------
(* Deep nesting.  A call on a deeply nested input is followed in steps of  *)
(* at most StepCalls nested calls: frame holds the call a step stops at,   *)
(* with the recursionDepth argument of the encoder, and decoded holds      *)
(* ctx.index and ctx.depth of the decoder.  The calls are followed while   *)
(* the value of the call holds one container and nothing else; what is     *)
(* left then is computed by encodeArray, encodeObject and parseObject      *)
(* themselves.  The text encode returns is not followed: phase is          *)
(* "returned" when its calls have returned.                                *)

\* the nested calls of one step
StepCalls == 10

EncodeFrame(fn, v, recursionDepth) == [fn |-> fn, v |-> v, recursionDepth |-> recursionDepth]

\* the calls of the encoder have ended: thrown tells how
EncodeEnds(thrown) == [fn |-> IF thrown THEN "throw" ELSE "return"]

\* v holds one container and nothing else
holdsOneContainer(v) ==
  IF v.t = "arr" THEN Len(v.items) = 1 /\ ~isPrimitive(v.items[1])
  ELSE v.t = "obj" /\ Len(v.keys) = 1 /\ isSafeKey(v.keys[1]) /\ ~isPrimitive(v.vals[1])

RECURSIVE encodeCalls(_, _, _, _, _)
\* the nested calls from the call fn(v, .., recursionDepth) on, fuel of them at
\* most: the call they stop at, or how they end.
\*   encodeValue: the check, then encodeArray or encodeObject on the value
\*   encodeArray on a list of one container: encodeValue on an array item,
\*     encodeObject on an object item
\*   encodeObject: the check, then on an object of one container
\*     encodeArray on an array entry, encodeObject on an object entry
encodeCalls(fn, v, opts, recursionDepth, fuel) ==
  IF fuel <= 0 THEN EncodeFrame(fn, v, recursionDepth)
  ELSE IF fn = "encodeValue" THEN
    IF encodeDepthExceeded(recursionDepth) THEN EncodeEnds(TRUE)
    ELSE IF isPrimitive(v) THEN EncodeEnds(FALSE)
    ELSE encodeCalls(IF v.t = "arr" THEN "encodeArray" ELSE "encodeObject", v, opts,
                     recursionDepth + 1, fuel - 1)
  ELSE IF fn = "encodeArray" THEN
    IF holdsOneContainer(v) /\ ~(opts.tabularArrays /\ isTabularArray(v.items))
    THEN encodeCalls(IF v.items[1].t = "arr" THEN "encodeValue" ELSE "encodeObject",
                     v.items[1], opts, recursionDepth + 1, fuel - 1)
    ELSE EncodeEnds(encodeArray(v.items, 0, opts, NoDictionary, <<>>, recursionDepth).err)
  ELSE IF encodeDepthExceeded(recursionDepth) THEN EncodeEnds(TRUE)
  ELSE IF holdsOneContainer(v)
  THEN encodeCalls(IF v.vals[1].t = "arr" THEN "encodeArray" ELSE "encodeObject",
                   v.vals[1], opts, recursionDepth + 1, fuel - 1)
  ELSE EncodeEnds(encodeObject(v, 0, opts, NoDictionary, <<>>, recursionDepth).err)

\* the state after a step of the encoder that got to the frame next
EncodeStep(next) ==
  /\ frame' = IF next.fn \in {"throw", "return"} THEN NoFrame ELSE next
  /\ phase' = IF next.fn = "throw" THEN "encoded"
              ELSE IF next.fn = "return" THEN "returned" ELSE "encoding"
  /\ encoded' = IF next.fn = "throw" THEN joinLines(Throw) ELSE encoded
  /\ UNCHANGED <<value, options, decoded>>

\* encode, from its call of encodeValue(value, 0, opts, dictionary, lines, null, 0) on
EnterEncode ==
  /\ phase = "input"
  /\ frame.fn = "encode"
  /\ EncodeStep(IF "str" \notin DOMAIN mergeOptions(options).indent THEN EncodeEnds(TRUE)
                ELSE encodeCalls("encodeValue", value, mergeOptions(options), 0, StepCalls))

\* the calls of the encoder from the one the last step stopped at
ContinueEncode ==
  /\ phase = "encoding"
  /\ EncodeStep(encodeCalls(frame.fn, frame.v, mergeOptions(options), frame.recursionDepth,
                            StepCalls))

\* a call of parseObject(ctx, baseIndent); path: the keys under which the calls
\* above it store what they get
ParseFrame(baseIndent, path) == [fn |-> "parseObject", baseIndent |-> baseIndent, path |-> path]

\* ctx.lines, ctx.dictionary and ctx.indent of decode on lines
contextOf(lines) ==
  [lines |-> lines, dictionary |-> dictionaryOfLines(lines), indent |-> detectIndent(lines)]

RECURSIVE WrapPath(_, _)
\* obj[key] = the object of the nested call, for the keys of path from the
\* last to the first
WrapPath(val, path) ==
  IF Len(path) = 0 THEN val
  ELSE IF Len(path) = 1 THEN Obj(<<path[1]>>, <<val>>)
  ELSE WrapPath(WrapPath(val, SubSeq(path, Len(path) \div 2 + 1, Len(path))),
                SubSeq(path, 1, Len(path) \div 2))

\* the line at the cursor is the first entry of the object, a safe key alone
\* or with a colon, and every line after it is indented more: parseObject
\* calls itself on the next line, and skips what is left when that call returns
opensLevel(env, index, baseIndent) ==
  /\ index + 1 < Len(env.lines)
  /\ getIndentLevel(env.lines[index + 1], env.indent) = baseIndent
  /\ keyLen(Trim(env.lines[index + 1])) >= 1
  /\ Drop(Trim(env.lines[index + 1]), keyLen(Trim(env.lines[index + 1]))) \in {<<>>, <<":">>}
  /\ isSafeKey(SubSeq(Trim(env.lines[index + 1]), 1, keyLen(Trim(env.lines[index + 1]))))
  /\ \A j \in (index + 2)..Len(env.lines) : getIndentLevel(env.lines[j], env.indent) > baseIndent

\* the calls of the decoder have ended with r, the calls of path above the
\* last: each one stores what it gets, skips the lines left and does ctx.depth--
DecodeEnds(r, path, lines) ==
  [frame |-> NoFrame,
   decoded |-> IF r.err THEN [r EXCEPT !.depth = r.depth - Len(path)]
               ELSE Ret(WrapPath(r.val, path), Len(lines), r.depth - Len(path))]

RECURSIVE parseCalls(_, _, _, _, _, _)
\* the nested calls from the call parseObject(ctx, baseIndent) on, fuel of them
\* at most: ctx.depth++ and the check, then the nested call for a line that
\* opens a level
parseCalls(env, index, depth, baseIndent, path, fuel) ==
  IF fuel <= 0 THEN [frame |-> ParseFrame(baseIndent, path), decoded |-> Ret(Null, index, depth)]
  ELSE IF decodeDepthExceeded(depth + 1) THEN DecodeEnds(Raise(index, depth + 1), path, env.lines)
  ELSE IF opensLevel(env, index, baseIndent)
  THEN parseCalls(env, index + 1, depth + 1,
                  getIndentLevel(env.lines[index + 2], env.indent),
                  Append(path, SubSeq(Trim(env.lines[index + 1]), 1,
                                      keyLen(Trim(env.lines[index + 1])))),
                  fuel - 1)
  ELSE DecodeEnds(parseObject(env, index, depth, baseIndent), path, env.lines)

\* the state after a step of the decoder that got to next
DecodeStep(next) ==
  /\ frame' = next.frame
  /\ decoded' = next.decoded
  /\ phase' = IF next.frame = NoFrame THEN "decoded" ELSE "decoding"
  /\ UNCHANGED <<value, options, encoded>>

\* decode, from the call of parseObject(ctx, 0) that parseRoot makes for a
\* first line that starts with a key; any other text is decoded in one step
EnterDecode ==
  /\ phase = "text"
  /\ frame.fn = "decode"
  /\ DecodeStep(IF /\ ~inputTooLarge(encoded.text)
                   /\ startIndex(nonEmptyLines(encoded.text)) < Len(nonEmptyLines(encoded.text))
                   /\ looksLikeObject(Trim(nonEmptyLines(encoded.text)
                                             [startIndex(nonEmptyLines(encoded.text)) + 1]))
                THEN parseCalls(contextOf(nonEmptyLines(encoded.text)),
                                startIndex(nonEmptyLines(encoded.text)), 0, 0, <<>>, StepCalls)
                ELSE [frame |-> NoFrame, decoded |-> decode(encoded.text)])

\* the calls of the decoder from the one the last step stopped at
ContinueDecode ==
  /\ phase = "decoding"
  /\ DecodeStep(parseCalls(contextOf(nonEmptyLines(encoded.text)), decoded.index, decoded.depth,
                           frame.baseIndent, frame.path, StepCalls))

\* one step of a call on a deep input
NextCall == EnterEncode \/ ContinueEncode \/ EnterDecode \/ ContinueDecode

\* the deepest structure a caller passes
MaxDepth == 101

RECURSIVE Wrap(_, _, _)
\* the container v inside n more containers: arrays of one item, or objects
\* of one entry
Wrap(v, n, inArray) ==
  IF isPrimitive(v) \/ n <= 0 THEN v
  ELSE IF n = 1 THEN (IF inArray THEN Arr(<<v>>) ELSE Obj(<<<<"n", "e", "s", "t", "e", "d">>>>, <<v>>))
  ELSE Wrap(Wrap(v, n \div 2, inArray), n - n \div 2, inArray)

\* d nested objects: {nested: {nested: ... {value: 1}}}
NestedObjects(d) == Wrap(Obj(<<<<"v", "a", "l", "u", "e">>>>, <<IntV(1)>>), d - 1, FALSE)

\* d nested arrays: [[ ... [1]]]
NestedArrays(d) == Wrap(Arr(<<IntV(1)>>), d - 1, TRUE)

\* the values nested d deep
DeepValues(d) == {NestedObjects(d), NestedArrays(d)}

\* the text of d nested objects, a space of indent for a level: d - 1 lines
\* that open a level, then the leaf
NestedText(d, open, leaf) ==
  Join([i \in 1..d |-> Repeat(<<" ">>, i - 1) \o (IF i < d THEN open ELSE leaf)], <<"\n">>)

\* the texts nested d deep, with the lines encode writes and the lines the
\* tests write
DeepTexts(d) == {NestedText(d, <<"n", "e", "s", "t", "e", "d", ":">>, <<"v", "a", "l", "u", "e", ":", " ", "1">>), NestedText(d, <<"n", "e", "s", "t", "e", "d">>, <<"v", "a", "l", "u", "e", ":", "1">>)}

\* the caller holds a deep value and is about to call encode
StartEncodeCall(v, opt) ==
  /\ phase = "input" /\ value = v /\ options = opt
  /\ encoded = [err |-> FALSE, text |-> <<>>] /\ decoded = Ret(Null, 0, 0)
  /\ frame = [fn |-> "encode"]

\* the caller holds a deep text and is about to call decode
StartDecodeCall(text) ==
  /\ phase = "text" /\ value = Null /\ options = <<>>
  /\ encoded = [err |-> FALSE, text |-> text] /\ decoded = Ret(Null, 0, 0)
  /\ frame = [fn |-> "decode"]

\* the options of the deep calls
DeepOptions == {DefaultOptions, [mode |-> "compact"]}

\* the depths of the deep calls: the first ones, those at and after each
\* multiple of ten, and the last ones
Depths == {d \in 1..MaxDepth : d <= 3 \/ d % 10 <= 1 \/ d >= MaxDepth - 2}

InitDeep ==
  \/ \E d \in Depths : \E v \in DeepValues(d), o \in DeepOptions : StartEncodeCall(v, o)
  \/ \E d \in Depths : \E text \in DeepTexts(d) : StartDecodeCall(text)

SpecDeep == InitDeep /\ [][NextCall]_vars

DepthCeilingShared ==
  /\ (phase = "encoded" /\ encoded.err) =>
       \A d \in 1..MAX_RECURSION_DEPTH : value \notin DeepValues(d)
  /\ (phase = "decoded" /\ decoded.err) =>
       \A d \in 1..MAX_RECURSION_DEPTH : encoded.text \notin DeepTexts(d)

----------------------------------------------------------------------------
(* Run lengths in an inline array                                          *)

\* a row has one cell with a run length and 0..MaxNeighbours cells on each side
MaxNeighbours == 1

\* a cell as the caller writes it: v alone, or v*N for a count N
Cell(v, count) == [v |-> v, count |-> count]

CellText(cell) == IF cell.count = <<>> THEN cell.v ELSE cell.v \o <<"*">> \o cell.count

\* the cells with a run length
RepeatCells ==
  {Cell(v, count) : v \in {<<"1">>, <<"a", "*", "b">>},
                    count \in {<<"0">>, <<"3">>, <<"0", "0", "7">>, <<"9", "9", "9", "9">>, <<"1", "0", "0", "0", "0">>, <<"1", "0", "0", "0", "1">>, <<"9", "9", "9", "9", "9", "9", "9", "9", "9">>}}

\* the cells on the sides
NeighbourCells == {Cell(<<"x">>, <<>>), Cell(<<"y">>, <<"2">>)}

\* the rows of cells
RepeatRows ==
  {before \o <<cell>> \o after : cell \in RepeatCells,
                                before \in SeqsOf(NeighbourCells, 0, MaxNeighbours),
                                after \in SeqsOf(NeighbourCells, 0, MaxNeighbours)}

\* the caller holds a text it wrote from cells; value holds the cells, each as
\* the array [v, N]
StartCells(cells, text) ==
  /\ phase = "text"
  /\ value = Arr([i \in 1..Len(cells) |-> Arr(<<Str(cells[i].v), Str(cells[i].count)>>)])
  /\ options = <<>>
  /\ encoded = [err |-> FALSE, text |-> text]
  /\ decoded = Ret(Null, 0, 0)
  /\ frame = NoFrame

\* the text `items[]:` with the cells of a row
StartRow(cells) ==
  StartCells(cells, <<"i", "t", "e", "m", "s", "[", "]", ":">> \o Join([i \in 1..Len(cells) |-> CellText(cells[i])], <<",">>))

InitRepeatRows == \E cells \in RepeatRows : StartRow(cells)

SpecRepeatRows == InitRepeatRows /\ [][DecodeText]_vars

\* the copies the cell [v, N] stands for: v once without a count, else
\* min(max(N, 1), 10000) times
CopiesOf(cell) ==
  LET n == StrToNat(cell.items[2].s)
      copies == IF cell.items[2].s = <<>> THEN 1
                ELSE IF n < 1 THEN 1 ELSE IF n > 10000 THEN 10000 ELSE n
  IN [r \in 1..copies |-> parsePrimitive(cell.items[1].s, <<>>)]

----------------------------------------------------------------------------
(* Run lengths in a table body                                             *)

\* a table body has 1..MaxRunRows rows
MaxRunRows == 2

\* the cells of a one-column table: a value alone or with a run length
RunCells == {Cell(v, count) : v \in {<<"T">>, <<"F">>, <<"1">>}, count \in {<<>>, <<"2">>, <<"3">>, <<"5">>}}

\* the table `flags{enabled}:` with one cell on each row, the rows indented or not
StartTable(cells, rowIndent) ==
  StartCells(cells,
             Join(<<<<"f", "l", "a", "g", "s", "{", "e", "n", "a", "b", "l", "e", "d", "}", ":">>>> \o [i \in 1..Len(cells) |-> rowIndent \o CellText(cells[i])], <<"\n">>))

InitRunTables ==
  \E cells \in SeqsOf(RunCells, 1, MaxRunRows), rowIndent \in {<<>>, <<" ", " ">>} :
    StartTable(cells, rowIndent)

SpecRunTables == InitRunTables /\ [][DecodeText]_vars

\* the rows the cell [v, N] stands for: one row {enabled: v}, or N of them
RowsOf(cell) ==
  [r \in 1..(IF cell.items[2].s = <<>> THEN 1 ELSE StrToNat(cell.items[2].s)) |->
     Obj(<<<<"e", "n", "a", "b", "l", "e", "d">>>>, <<parsePrimitive(cell.items[1].s, <<>>)>>)]

\* C16: a cell v*N in the body of a table is decoded to N rows, each holding v,
\* so the rows `T*5` and `F*3` of a one-column table give eight row objects
RunLengthRows ==
  phase = "decoded" =>
    /\ ~decoded.err
    /\ decoded.val = Obj(<<<<"f", "l", "a", "g", "s">>>>,
                         <<Arr(Flatten([i \in 1..Len(value.items) |-> RowsOf(value.items[i])]))>>)

----------------------------------------------------------------------------
(* The size of the input                                                   *)

\* the sizes tried lie within MaxOver bytes of the limit
MaxOver == 2

\* the revivers a caller passes: "same" returns the value it is given,
\* "double" doubles a number, "keyed" puts the key before a string, "sizes"
\* returns the number of items for an array
reviverResult(reviver, key, v) ==
  IF reviver = "double" /\ v.t = "num" THEN Num(2 * v.m, v.e)
  ELSE IF reviver = "keyed" /\ v.t = "str" THEN Str(key \o <<"=">> \o v.s)
  ELSE IF reviver = "sizes" /\ v.t = "arr" THEN IntV(Len(v.items))
  ELSE v

\* a reviver call for the value alone, its elements and fields left as they are
applyReviverAtRootOnly(v, reviver, key, depth, path) ==
  [err |-> FALSE, val |-> reviverResult(reviver, key, v),
   calls |-> <<[path |-> path, key |-> key, value |-> v]>>]

RECURSIVE applyReviver(_, _, _, _, _)
\* applyReviver(value, reviver, key, depth): err when the depth is exceeded,
\* val: what it returns, calls: the calls of the reviver in order, each with
\* its key and value and with the path of keys from the root to the value
applyReviver(v, reviver, key, depth, path) ==
  IF decodeDepthExceeded(depth) THEN [err |-> TRUE, val |-> Null, calls |-> <<>>]
  ELSE LET safe == SelectSeq([i \in 1..(IF v.t = "obj" THEN Len(v.keys) ELSE 0) |-> i],
                             LAMBDA i : isSafeKey(v.keys[i]))
           keys == IF v.t = "arr" THEN [i \in 1..Len(v.items) |-> NatToStr(i - 1)]
                   ELSE [j \in 1..Len(safe) |-> v.keys[safe[j]]]
           children == IF v.t = "arr" THEN v.items
                       ELSE [j \in 1..Len(safe) |-> v.vals[safe[j]]]
           rs == [i \in 1..Len(children) |->
                    applyReviver(children[i], reviver, keys[i], depth + 1, Append(path, keys[i]))]
           failed == {i \in 1..Len(rs) : rs[i].err}
           made == IF v.t = "arr" THEN Arr([i \in 1..Len(rs) |-> rs[i].val])
                   ELSE IF v.t = "obj" THEN Obj(keys, [i \in 1..Len(rs) |-> rs[i].val])
                   ELSE v
       IN IF failed = {}
          THEN [err |-> FALSE, val |-> reviverResult(reviver, key, made),
                calls |-> Flatten([i \in 1..Len(rs) |-> rs[i].calls])
                            \o <<[path |-> path, key |-> key, value |-> made]>>]
          ELSE [err |-> TRUE, val |-> Null,
                calls |-> Flatten([i \in 1..(CHOOSE f \in failed : \A g \in failed : f <= g) |->
                                     rs[i].calls])]

\* what a call of decode gave, and the calls of the reviver it made
Revived(r, val, calls, err) ==
  [val |-> IF err THEN Null ELSE val, index |-> r.index, depth |-> r.depth,
   err |-> r.err \/ err, calls |-> calls]

\* an input: the text, a newline, and a last line of narrow spaces and wide
\* no-break spaces
Input(text, narrow, wide) == [err |-> FALSE, text |-> text, narrow |-> narrow, wide |-> wide]

\* the input written out
inputString(in) ==
  in.text \o <<"\n">> \o Repeat(<<" ">>, in.narrow) \o Repeat(<<NBSP>>, in.wide)

\* the UTF-8 bytes of the input
inputBytes(in) ==
  ByteLength(in.text) + ByteLength(<<"\n">>)
    + in.narrow * ByteLength(<<" ">>) + in.wide * ByteLength(<<NBSP>>)

\* decode(input, options): the size test first; the filter drops the blank last
\* line, so the lines parsed are the lines of in.text; the reviver is applied to
\* what parseRoot returns
decodeInput(in, opts) ==
  IF sizeExceeded(inputBytes(in)) THEN Revived(Raise(0, 0), Null, <<>>, FALSE)
  ELSE LET lines == nonEmptyLines(in.text)
           r == decodeLines(lines)
           rev == applyReviver(r.val, opts.reviver, <<>>, 0, <<>>)
       IN IF Len(lines) = 0 \/ startIndex(lines) >= Len(lines) \/ r.err \/ opts.reviver = "none"
          THEN Revived(r, r.val, <<>>, FALSE)
          ELSE Revived(r, rev.val, rev.calls, rev.err)

\* the texts of the inputs
SizedTexts == {<<>>, <<"a", ":", " ", "1">>, <<"i", "t", "e", "m", "s", "[", "]", ":", "1", ",", "2">>, <<"n", "a", "m", "e", ":", " ", "B", "o", "b", "\n", "a", "g", "e", ":", " ", "3">>}

\* the last lines: short ones, and those that bring the input to within MaxOver
\* bytes of the limit, in spaces alone or in no-break spaces and at most one space
LastLines(text) ==
  LET base == Len(text) + 1
  IN {<<narrow, wide>> : narrow \in 0..MaxOver, wide \in 0..MaxOver}
       \cup {<<MAX_INPUT_SIZE + d - base, 0>> : d \in (0 - MaxOver)..MaxOver}
       \cup {<<(MAX_INPUT_SIZE + d - base) % 2, (MAX_INPUT_SIZE + d - base) \div 2>> :
               d \in (0 - MaxOver)..MaxOver}

\* the caller holds an input and decode options, with a reviver or with "none"
StartInput(in, reviver) ==
  /\ phase = "text"
  /\ value = Null
  /\ options = [reviver |-> reviver]
  /\ encoded = in
  /\ decoded = Revived(Ret(Null, 0, 0), Null, <<>>, FALSE)
  /\ frame = NoFrame

\* the caller calls decode on its input with its options
DecodeInput ==
  /\ phase = "text"
  /\ decoded' = decodeInput(encoded, options)
  /\ phase' = "decoded"
  /\ UNCHANGED <<value, options, encoded, frame>>

InitSized ==
  \E text \in SizedTexts, reviver \in {"none", "same"} :
    \E last \in LastLines(text) : StartInput(Input(text, last[1], last[2]), reviver)

SpecSized == InitSized /\ [][DecodeInput]_vars

\* the bytes of the input of the state, counted from its parts
BytesHeld == Len(encoded.text) + 1 + encoded.narrow + 2 * encoded.wide

\* C17: decode raises an error for every input of more than 10 MiB in UTF-8
\* bytes, before any line is parsed, any value is produced or the reviver is
\* called; an input of 10 MiB or less is decoded as its text is
SizeCheckedFirst ==
  phase = "decoded" =>
    /\ BytesHeld > 10 * 1024 * 1024 =>
         /\ decoded.err
         /\ decoded.val = Null
         /\ decoded.index = 0
         /\ decoded.calls = <<>>
    /\ BytesHeld <= 10 * 1024 * 1024 =>
         /\ ~decoded.err
         /\ decoded.val = decode(encoded.text).val
    /\ encoded.narrow + encoded.wide <= 2 * MaxOver =>
         /\ decoded.err = decode(inputString(encoded)).err
         /\ decoded.val = decode(inputString(encoded)).val

\* an input of one byte more than 10 MiB, most of it two-byte characters, was
\* rejected though a reviver was given
OversizeRejected ==
  /\ phase = "decoded"
  /\ options.reviver = "same"
  /\ encoded.wide > 0
  /\ BytesHeld = 10 * 1024 * 1024 + 1
  /\ decoded.err

----------------------------------------------------------------------------
(* Tabular detection                                                       *)

\* the arrays tested have 0..MaxTested items
MaxTested == 2

\* the values under a key: primitives of three types, and a nested value
TestedValues == {Null, IntV(1), Str(<<"x">>), Arr(<<>>)}

\* the items: maps over the keys a and b, in either order, and two items that
\* are no maps
TestedItems ==
  {Obj(<<>>, <<>>), IntV(1), Arr(<<>>)}
    \cup {Obj(<<k>>, <<v>>) : k \in {<<"a">>, <<"b">>}, v \in TestedValues}
    \cup {Obj(ks, <<v, w>>) : ks \in {<<<<"a">>, <<"b">>>>, <<<<"b">>, <<"a">>>>}, v \in TestedValues, w \in TestedValues}

\* a caller is about to test an array
StartTest(arr) ==
  /\ phase = "input"
  /\ value = Arr(arr)
  /\ options = <<>>
  /\ encoded = [err |-> FALSE, text |-> <<>>]
  /\ decoded = Ret(Null, 0, 0)
  /\ frame = NoFrame

\* the caller calls isTabularArray on its array
TestTabular ==
  /\ phase = "input"
  /\ frame' = [fn |-> "isTabularArray", result |-> isTabularArray(value.items)]
  /\ phase' = "tested"
  /\ UNCHANGED <<value, options, encoded, decoded>>

InitTested == \E arr \in SeqsOf(TestedItems, 0, MaxTested) : StartTest(arr)

SpecTested == InitTested /\ [][TestTabular]_vars

\* the set of the keys of a map
KeySet(o) == {o.keys[i] : i \in 1..Len(o.keys)}

\* every item of arr is a map
AllMaps(arr) == \A i \in 1..Len(arr) : arr[i].t = "obj"

\* the maps of arr have the same key set
SameKeySets(arr) == \A i \in 1..Len(arr) : KeySet(arr[i]) = KeySet(arr[1])

\* every value of every map of arr is a primitive
AllPrimitive(arr) ==
  \A i \in 1..Len(arr) : \A j \in 1..Len(arr[i].vals) :
    arr[i].vals[j].t \in {"null", "bool", "num", "str"}

\* two maps of arr hold values of different types under the same key
MixedTypes(arr) ==
  \E i \in 1..Len(arr), j \in 1..Len(arr) :
    \E k \in KeySet(arr[i]) \cap KeySet(arr[j]) : Get(arr[i], k).t # Get(arr[j], k).t

\* C18 as stated: isTabularArray is true exactly for a non-empty array of maps
\* with one key set and primitive values, and values of different types under
\* one key make it false
TabularExactTyped ==
  phase = "tested" =>
    /\ frame.result = (/\ Len(value.items) > 0
                       /\ AllMaps(value.items)
                       /\ SameKeySets(value.items)
                       /\ AllPrimitive(value.items))
    /\ (AllMaps(value.items) /\ MixedTypes(value.items)) => ~frame.result

\* C18: isTabularArray is true exactly for a non-empty array of maps with one
\* key set, not empty, and primitive values; the types of the values under a
\* key need not agree
TabularExact ==
  phase = "tested" =>
    frame.result = (/\ Len(value.items) > 0
                    /\ AllMaps(value.items)
                    /\ SameKeySets(value.items)
                    /\ KeySet(value.items[1]) # {}
                    /\ AllPrimitive(value.items))

\* an array whose maps hold a number and a string under the same key was
\* found tabular
TabularWithMixedTypes ==
  /\ phase = "tested"
  /\ value = Arr(<<Obj(<<<<"a">>>>, <<IntV(1)>>), Obj(<<<<"a">>>>, <<Str(<<"x">>)>>)>>)
  /\ frame.result

----------------------------------------------------------------------------
(* The dictionary and the length of the output                             *)

\* the caller's options with the dictionary switched off and the rest as it is
WithoutDictionary(opt) == [dictionary |-> FALSE] @@ opt

\* C19: with the dictionary enabled the text encode returns is no longer than
\* the text it returns for the same value with the dictionary disabled and all
\* other options equal
InterningNeverLonger ==
  (phase = "encoded" /\ ~encoded.err /\ mergeOptions(options).dictionary) =>
    Len(encoded.text) <= Len(encode(value, WithoutDictionary(options)).text)

----------------------------------------------------------------------------
(* The cells of a table row and the fields of its header                   *)

\* a table row has 1..MaxRowCells cells
MaxRowCells == 3

\* the cells of the rows: a number, a column reference, a run of two
RowCells == {Cell(<<"1">>, <<>>), Cell(<<"^">>, <<>>), Cell(<<"T">>, <<"2">>)}

\* the rows of a table
CellRows == SeqsOf(RowCells, 1, MaxRowCells)

\* the headers: the field names and the header line
Headers ==
  {[fields |-> <<<<"a">>>>, line |-> <<"t", "{", "a", "}", ":">>],
   [fields |-> <<<<"i", "d">>, <<"n", "a", "m", "e">>>>, line |-> <<"t", "[", "2", "]", "{", "i", "d", ",", "n", "a", "m", "e", "}", ":">>]}

\* the caller holds the text of a table: the header line and one line for each
\* row; value holds the field names and the cells of each row
StartCellTable(header, rows, rowIndent) ==
  /\ phase = "text"
  /\ value = Arr(<<Arr([i \in 1..Len(header.fields) |-> Str(header.fields[i])])>> \o
                 [r \in 1..Len(rows) |->
                    Arr([i \in 1..Len(rows[r]) |->
                           Arr(<<Str(rows[r][i].v), Str(rows[r][i].count)>>)])])
  /\ options = <<>>
  /\ encoded = [err |-> FALSE,
                text |-> Join(<<header.line>> \o
                              [r \in 1..Len(rows) |->
                                 rowIndent \o Join([i \in 1..Len(rows[r]) |-> CellText(rows[r][i])],
                                                   <<",">>)],
                              <<"\n">>)]
  /\ decoded = Ret(Null, 0, 0)
  /\ frame = NoFrame

InitCellTables ==
  \E header \in Headers, first \in CellRows, rowIndent \in {<<>>, <<" ", " ">>} :
    \/ StartCellTable(header, <<first>>, rowIndent)
    \/ \E second \in CellRows : StartCellTable(header, <<first, second>>, rowIndent)

SpecCellTables == InitCellTables /\ [][DecodeText]_vars

\* the number of cells the row written from cells has once its runs are expanded
CellCount(cells) == Len(Flatten([i \in 1..Len(cells) |-> CopiesOf(cells[i])]))

----------------------------------------------------------------------------
(* References beyond the dictionary                                        *)

\* a document has 0..MaxEntries dictionary entries
MaxEntries == 2

\* a reference names an index up to MaxBeyond past the last entry
MaxBeyond == 2

\* the dictionary line the encoder writes for n entries, none for n = 0
EntryWords == <<<<"a", "l", "p", "h", "a">>, <<"b", "e", "t", "a">>, <<"g", "a", "m", "m", "a">>, <<"d", "e", "l", "t", "a">>>>

DictionaryLines(n) ==
  IF n = 0 THEN <<>>
  ELSE << <<"$", ":">> \o Join([i \in 1..n |-> <<"$">> \o NatToStr(i - 1) \o <<"=">> \o EntryWords[i]],
                              <<",">>) >>

\* the tokens `$N` with N not below n: the next indexes, one written with a
\* leading zero, and one of nine digits
DanglingTokens(n) ==
  {<<"$">> \o NatToStr(n + d) : d \in 0..MaxBeyond}
    \cup {<<"$", "0">> \o NatToStr(n + 1), <<"$">> \o <<"9", "9", "9", "9", "9", "9", "9", "9", "9">>}

\* the places of a token: [lines |-> the lines of the value, expected |-> the
\* value they stand for when the token stands for the value tok]
TokenPlaces(token, tok) ==
  {[lines |-> <<token>>, expected |-> tok],
   [lines |-> <<<<"k", ":", " ">> \o token>>, expected |-> Obj(<<<<"k">>>>, <<tok>>)],
   [lines |-> <<<<"i", "t", "e", "m", "s", "[", "]", ":">> \o token \o <<",", "x">>>>,
    expected |-> Obj(<<<<"i", "t", "e", "m", "s">>>>, <<Arr(<<tok, Str(<<"x">>)>>)>>)],
   [lines |-> <<<<"i", "t", "e", "m", "s", "[", "]", ":", "x", ",">> \o token>>,
    expected |-> Obj(<<<<"i", "t", "e", "m", "s">>>>, <<Arr(<<Str(<<"x">>), tok>>)>>)],
   [lines |-> <<<<"t", "{", "i", "d", ",", "n", "a", "m", "e", "}", ":">>, <<"1", ",">> \o token>>,
    expected |-> Obj(<<<<"t">>>>, <<Arr(<<Obj(<<<<"i", "d">>, <<"n", "a", "m", "e">>>>, <<IntV(1), tok>>)>>)>>)]}

\* the caller holds a document of n dictionary entries with the token at a
\* place; value holds the value the document stands for when the token is a
\* string of its own text
StartDangling(n, token, place) ==
  /\ phase = "text"
  /\ value = place.expected
  /\ options = <<>>
  /\ encoded = [err |-> FALSE, text |-> Join(DictionaryLines(n) \o place.lines, <<"\n">>)]
  /\ decoded = Ret(Null, 0, 0)
  /\ frame = NoFrame

InitDangling ==
  \E n \in 0..MaxEntries :
    \E token \in DanglingTokens(n) :
      \E place \in TokenPlaces(token, Str(token)) : StartDangling(n, token, place)

SpecDangling == InitDangling /\ [][DecodeText]_vars

----------------------------------------------------------------------------
(* Lines of no known shape                                                 *)

\* a document has 1..MaxBodyLines lines
MaxBodyLines == 3

\* lines of a known shape: fields, a nested key, a nested field, a table
\* header, a row
KnownLines == {<<"a", ":", " ", "1">>, <<"b", ":", " ", "x">>, <<"o", ":">>, <<" ", " ", "c", ":", " ", "2">>, <<"t", "{", "a", "}", ":">>, <<"7">>}

\* lines that match none of the patterns of an object body
UnknownLines == {<<"?", "?", "?">>, <<"-", " ", "x">>, <<"a", " ", "b", ":", " ", "1">>, <<" ", " ", "=", " ", "5">>}

\* the caller holds a document of the given lines; value holds the lines
StartLines(lines) ==
  /\ phase = "text"
  /\ value = Arr([i \in 1..Len(lines) |-> Str(lines[i])])
  /\ options = <<>>
  /\ encoded = [err |-> FALSE, text |-> Join(lines, <<"\n">>)]
  /\ decoded = Ret(Null, 0, 0)
  /\ frame = NoFrame

InitLines ==
  \E lines \in SeqsOf(KnownLines \cup UnknownLines, 1, MaxBodyLines) : StartLines(lines)

SpecLines == InitLines /\ [][DecodeText]_vars

\* the lines without the i-th
WithoutLine(lines, i) == SubSeq(lines, 1, i - 1) \o SubSeq(lines, i + 1, Len(lines))

\* the line is a field `key: value`, at any indent
IsFieldLine(line) ==
  LET trimmed == Trim(line)
  IN keyLen(trimmed) >= 1 /\ Len(trimmed) > keyLen(trimmed) + 1 /\ trimmed[keyLen(trimmed) + 1] = ":"

----------------------------------------------------------------------------
(* The effective options                                                   *)

\* one field of the caller's options: <<>> when it is not passed, else <<its value>>
Passed(field, choice) == IF choice = <<>> THEN <<>> ELSE [f \in {field} |-> choice[1]]

\* the options a caller passes: any of mode, dictionary, columnRefs,
\* minimalIndent and maxDictEntries, each with a value of its type
PassedOptions ==
  {Passed("mode", mode) @@ Passed("dictionary", dictionary) @@ Passed("columnRefs", columnRefs)
     @@ Passed("minimalIndent", minimalIndent) @@ Passed("maxDictEntries", maxDictEntries) :
   mode \in {<<>>, <<"llm">>, <<"compact">>, <<"balanced">>},
   dictionary \in {<<>>, <<TRUE>>, <<FALSE>>},
   columnRefs \in {<<>>, <<TRUE>>, <<FALSE>>},
   minimalIndent \in {<<>>, <<TRUE>>, <<FALSE>>},
   maxDictEntries \in {<<>>, <<0>>, <<3>>}}

\* the caller calls encode; frame holds the opts encode works with
EncodeWith ==
  /\ phase = "input"
  /\ encoded' = encode(value, options)
  /\ frame' = [fn |-> "encode", opts |-> mergeOptions(options)]
  /\ phase' = "encoded"
  /\ UNCHANGED <<value, options, decoded>>

InitPassed ==
  \E opt \in PassedOptions :
    \E v \in RepeatedStringValues : Start(v, opt)

SpecPassed == InitPassed /\ [][EncodeWith]_vars

\* the preset of the caller's mode, the llm preset when no mode is passed
ChosenPreset == MODE_PRESETS[IF "mode" \in DOMAIN options THEN options.mode ELSE "llm"]

----------------------------------------------------------------------------
(* The reviver                                                             *)

\* the lines of the documents decoded with a reviver
RevivedLines == KnownLines \cup {<<"c", "o", "u", "n", "t", ":", "5">>, <<"i", "t", "e", "m", "s", "[", "]", ":", "1", ",", "x">>, <<"$", ":", "$", "0", "=", "a", "b", "c">>}

Revivers == {"same", "double", "keyed", "sizes"}

InitRevived ==
  \E lines \in SeqsOf(RevivedLines, 0, MaxBodyLines), reviver \in Revivers :
    StartInput(Input(Join(lines, <<"\n">>), 0, 0), reviver)

SpecRevived == InitRevived /\ [][DecodeInput]_vars

RECURSIVE Paths(_)
\* the paths of keys from v to v itself and to every value inside it
Paths(v) ==
  {<<>>} \cup
  (IF v.t = "arr"
   THEN UNION {{<<NatToStr(i - 1)>> \o p : p \in Paths(v.items[i])} : i \in 1..Len(v.items)}
   ELSE IF v.t = "obj"
   THEN UNION {{<<v.keys[i]>> \o p : p \in Paths(v.vals[i])} : i \in 1..Len(v.keys)}
   ELSE {})

RECURSIVE Replaced(_, _, _)
\* v with every value inside it, and then v, replaced by what the reviver
\* returns for it
Replaced(v, reviver, key) ==
  reviverResult(reviver, key,
                IF v.t = "arr"
                THEN Arr([i \in 1..Len(v.items) |-> Replaced(v.items[i], reviver, NatToStr(i - 1))])
                ELSE IF v.t = "obj"
                THEN Obj(v.keys, [i \in 1..Len(v.keys) |-> Replaced(v.vals[i], reviver, v.keys[i])])
                ELSE v)

\* p is a proper prefix of r
ProperPrefix(p, r) == Len(p) < Len(r) /\ SubSeq(r, 1, Len(p)) = p

\* the text of the state holds a value: a line that is not blank after the
\* dictionary line, if any
HoldsValue ==
  LET lines == nonEmptyLines(encoded.text)
  IN Len(lines) > 0 /\ startIndex(lines) < Len(lines)

----------------------------------------------------------------------------
(* Tables that hold the string ^                                           *)

\* a caret table has 1..MaxCaretRows rows
MaxCaretRows == 2

CaretCells == {Str(<<"^">>), Str(<<"x">>), IntV(1)}

\* root tables with the columns a and b
CaretTables ==
  {Arr(rows) : rows \in SeqsOf({Obj(<<<<"a">>, <<"b">>>>, <<c, d>>) : c, d \in CaretCells},
                               1, MaxCaretRows)}

InitCaretTables ==
  \E v \in CaretTables, o \in CallerOptions \cup {[columnRefs |-> FALSE]} : Start(v, o)

SpecCaretTables == InitCaretTables /\ [][Next]_vars

\* the places (row, field) of the value where the string ^ is held
CaretPlaces ==
  {p \in (1..Len(value.items)) \X {<<"a">>, <<"b">>} : Get(value.items[p[1]], p[2]) = Str(<<"^">>)}

\* C25: a string value equal to ^ held in any row of a table is emitted quoted
\* and decodes to the string ^, not to the value of the cell above it
CaretStringKept ==
  phase = "decoded" =>
    /\ ~decoded.err
    /\ decoded.val.t = "arr"
    /\ Len(decoded.val.items) = Len(value.items)
    /\ \A p \in CaretPlaces :
         /\ decoded.val.items[p[1]].t = "obj"
         /\ p[2] \in Chars(decoded.val.items[p[1]].keys)
         /\ Get(decoded.val.items[p[1]], p[2]) = Str(<<"^">>)

----------------------------------------------------------------------------
(* Values with and without their entries under unsafe keys                 *)

Admin == Str(<<"a", "d", "m", "i", "n", "i", "s", "t", "r", "a", "t", "o", "r">>)

\* rows that differ in their unsafe keys only, a table of unsafe columns only,
\* and a long string held under unsafe keys as well
UnsafeEntryValues ==
  UnsafeKeyValues \cup
  UNION {
    {Arr(<<Obj(<<<<"n">>, k>>, <<IntV(1), Evil>>), Obj(<<<<"n">>>>, <<IntV(2)>>)>>),
     Arr(<<Obj(<<<<"n">>, k>>, <<IntV(1), Obj(<<<<"m">>>>, <<Evil>>)>>),
           Obj(<<<<"n">>, k>>, <<IntV(2), Obj(<<<<"m">>>>, <<Evil>>)>>)>>),
     Arr(<<Obj(<<k>>, <<IntV(1)>>), Obj(<<k>>, <<IntV(2)>>)>>),
     Obj(<<<<"n">>, k>>, <<Admin, Arr(<<Admin, Admin>>)>>),
     Obj(<<<<"n">>, k>>, <<IntV(1), Arr(<<Admin, Admin, Admin>>)>>)}
    : k \in DANGEROUS_KEYS}

InitUnsafeEntries ==
  \E v \in UnsafeEntryValues, o \in CallerOptions : Start(v, o)

SpecUnsafeEntries == InitUnsafeEntries /\ [][Next]_vars

RECURSIVE Stripped(_)
\* v with every entry whose key is unsafe removed at every depth
Stripped(v) ==
  IF v.t = "arr" THEN Arr([i \in 1..Len(v.items) |-> Stripped(v.items[i])])
  ELSE IF v.t = "obj"
  THEN LET kept == safeEntries(v)
       IN Obj([i \in 1..Len(kept) |-> v.keys[kept[i]]],
              [i \in 1..Len(kept) |-> Stripped(v.vals[kept[i]])])
  ELSE v

\* C26: the output of encode does not depend on what is stored under unsafe
\* keys: encode(v) equals encode(v') where v' is v with every entry whose key
\* is unsafe removed at every depth
UnsafeEntriesIgnored ==
  phase = "encoded" => encoded = encode(Stripped(value), options)

----------------------------------------------------------------------------
(* Table headers that name unsafe fields                                   *)

\* a header names 1..MaxHeaderFields fields
MaxHeaderFields == 3

HeaderNames == {<<"a">>, <<"b">>, <<"_", "_", "p", "r", "o", "t", "o", "_", "_">>, <<"c", "o", "n", "s", "t", "r", "u", "c", "t", "o", "r">>}

\* the field lists of the headers: distinct names, at least one of them unsafe
UnsafeHeaders ==
  {fields \in SeqsOf(HeaderNames, 1, MaxHeaderFields) :
     /\ \A i, j \in 1..Len(fields) : fields[i] = fields[j] => i = j
     /\ \E i \in 1..Len(fields) : ~isSafeKey(fields[i])}

ColumnCells == {<<"1">>, <<"x">>}

\* the caller holds the text of a table under the key t: the header naming
\* fields and one line for each row, with one cell for each field of the
\* header; value holds the field names and the cells of each row
StartColumns(fields, rows) ==
  /\ phase = "text"
  /\ value = Arr(<<Arr([i \in 1..Len(fields) |-> Str(fields[i])])>> \o
                 [r \in 1..Len(rows) |-> Arr([i \in 1..Len(fields) |-> Str(rows[r][i])])])
  /\ options = <<>>
  /\ encoded = [err |-> FALSE,
                text |-> Join(<< <<"t", "{">> \o Join(fields, <<",">>) \o <<"}", ":">> >> \o
                              [r \in 1..Len(rows) |-> Join(rows[r], <<",">>)],
                              <<"\n">>)]
  /\ decoded = Ret(Null, 0, 0)
  /\ frame = NoFrame

InitColumns ==
  \E fields \in UnsafeHeaders :
    \E first \in [1..Len(fields) -> ColumnCells] :
      \/ StartColumns(fields, <<first>>)
      \/ \E second \in [1..Len(fields) -> ColumnCells] : StartColumns(fields, <<first, second>>)

SpecColumns == InitColumns /\ [][DecodeText]_vars

\* C27: when a table header names an unsafe field, decoding drops only that
\* column: every remaining field of every row receives the cell that stood at
\* that field's own position in the header
UnsafeColumnDropped ==
  phase = "decoded" =>
    /\ ~decoded.err
    /\ decoded.val.t = "obj"
    /\ decoded.val.keys = <<<<"t">>>>
    /\ decoded.val.vals[1].t = "arr"
    /\ LET rows == decoded.val.vals[1].items
           fields == [i \in 1..Len(value.items[1].items) |-> value.items[1].items[i].s]
       IN /\ Len(rows) = Len(value.items) - 1
          /\ \A r \in 1..Len(rows) :
               /\ rows[r].t = "obj"
               /\ rows[r].keys = SelectSeq(fields, isSafeKey)
               /\ \A i \in 1..Len(fields) :
                    isSafeKey(fields[i]) =>
                      Get(rows[r], fields[i]) = parsePrimitive(value.items[r + 1].items[i].s, <<>>)

----------------------------------------------------------------------------
(* The depth counter of the decoder                                        *)

\* C28: the depth counter is incremented on entry to an object, table or list
\* body and decremented on exit from it on every path, by normal return or by
\* the recursion-limit error, so it is 0 when decode ends
DepthRestored ==
  phase = "decoded" => decoded.depth = 0

----------------------------------------------------------------------------
(* The entries buildDictionary keeps                                       *)

\* a value holds 0..MaxOccurrences strings
MaxOccurrences == 5

\* two strings of 20 characters, one of 8 and one of 2
CountedStrings == {<<"a", "a", "a", "a", "a", "a", "a", "a", "a", "a", "a", "a", "a", "a", "a", "a", "a", "a", "a", "a">>, <<"b", "b", "b", "b", "b", "b", "b", "b", "b", "b", "b", "b", "b", "b", "b", "b", "b", "b", "b", "b">>, <<"c", "c", "c", "c", "c", "c", "c", "c">>, <<"d", "d">>}

\* arrays of strings
CountedValues == {Arr([i \in 1..Len(strs) |-> Str(strs[i])]) : strs \in SeqsOf(CountedStrings, 0, MaxOccurrences)}

\* minLength, minOccurrences and maxEntries of a call
DictionaryArguments ==
  [minLength : {3, 9}, minOccurrences : {2, 3}, maxEntries : {0, 1, 2}]

\* the caller calls buildDictionary(value, minLength, minOccurrences, maxEntries)
BuildDictionary ==
  /\ phase = "input"
  /\ frame' = [fn |-> "buildDictionary",
               result |-> buildDictionary(value, options.minLength, options.minOccurrences,
                                          options.maxEntries)]
  /\ phase' = "built"
  /\ UNCHANGED <<value, options, encoded, decoded>>

InitCounted == \E v \in CountedValues, a \in DictionaryArguments : Start(v, a)

SpecCounted == InitCounted /\ [][BuildDictionary]_vars

\* the strings of the value, in the order they are held
Held == [i \in 1..Len(value.items) |-> value.items[i].s]

Occurrences(str) == Cardinality({i \in 1..Len(Held) : Held[i] = str})

FirstOccurrence(str) == CHOOSE i \in 1..Len(Held) : Held[i] = str /\ \A j \in 1..(i - 1) : Held[j] # str

\* the savings of a string that is written as a reference of two characters
Savings(str) == (Len(str) - 2) * Occurrences(str) - (Len(str) + 1)

\* the strings of the value long and frequent enough whose savings exceed least
Eligible(least) ==
  {str \in Chars(Held) : /\ Len(str) >= options.minLength
                         /\ Occurrences(str) >= options.minOccurrences
                         /\ Savings(str) > least}

\* entries holds the first strings of set in the order before, maxEntries of
\* them at most, and each has the token $i of its place, counted from 0
KeepsInOrder(set, before(_, _)) ==
  LET entries == frame.result.entries
      limit == IF options.maxEntries > 0 /\ options.maxEntries < Cardinality(set)
               THEN options.maxEntries ELSE Cardinality(set)
  IN /\ Len(entries) = limit
     /\ Chars(entries) \subseteq set
     /\ \A i, j \in 1..Len(entries) : i < j => before(entries[i], entries[j])
     /\ \A i \in 1..Len(entries) : \A str \in set \ Chars(entries) : before(entries[i], str)
     /\ Len(frame.result.lookup) = Len(entries)
     /\ \A i \in 1..Len(entries) : frame.result.lookup[i] = <<"$">> \o NatToStr(i - 1)

\* descending savings, ties in code unit order
BeforeLexicographic(s, t) ==
  Savings(s) > Savings(t) \/ (Savings(s) = Savings(t) /\ StrLess(s, t))

\* descending savings, ties in the order of the first occurrence
BeforeFirstSeen(s, t) ==
  Savings(s) > Savings(t) \/ (Savings(s) = Savings(t) /\ FirstOccurrence(s) < FirstOccurrence(t))

----------------------------------------------------------------------------
(* The line cursor of the decoder, one loop iteration at a time            *)
(*                                                                         *)
(* The values are left out: a state holds ctx.index, the calls of body     *)
(* parsers that have not returned, and whether decode has thrown.          *)

\* a call of a body parser whose loop reads the lines at baseIndent
Body(fn, baseIndent) == [fn |-> fn, baseIndent |-> baseIndent]

Cursor(index, stack, err) == [index |-> index, stack |-> stack, err |-> err]

\* ctx.index++; continue
advance(index, stack) == Cursor(index + 1, stack, FALSE)

\* break, or the loop condition fails: the call returns
leaveBody(index, stack) == Cursor(index, SubSeq(stack, 1, Len(stack) - 1), FALSE)

\* the call of a body parser with the cursor at index: ctx.depth++, the check,
\* and for a table or a list the ctx.index++ that skips the header
enterBody(index, stack, fn, baseIndent) ==
  IF decodeDepthExceeded(Len(stack) + 1) THEN Cursor(index, stack, TRUE)
  ELSE Cursor(IF fn = "parseObject" THEN index ELSE index + 1,
              Append(stack, Body(fn, baseIndent)), FALSE)

\* an iteration of parseObject that leaves the cursor on a line indented
\* more than the object
objectIterationStuck(env, index, stack, baseIndent) ==
  IF index >= Len(env.lines) THEN leaveBody(index, stack)
  ELSE IF getIndentLevel(env.lines[index + 1], env.indent) < baseIndent
  THEN leaveBody(index, stack)
  ELSE IF getIndentLevel(env.lines[index + 1], env.indent) > baseIndent
  THEN Cursor(index, stack, FALSE)
  ELSE advance(index, stack)

\* an iteration of the while loop of parseObject with the cursor at index
objectIteration(env, index, stack, baseIndent) ==
  IF index >= Len(env.lines) THEN leaveBody(index, stack)
  ELSE LET currentIndent == getIndentLevel(env.lines[index + 1], env.indent)
           trimmed == Trim(env.lines[index + 1])
           key == SubSeq(trimmed, 1, keyLen(trimmed))
           rest == Drop(trimmed, keyLen(trimmed))
       IN IF currentIndent < baseIndent THEN leaveBody(index, stack)
          ELSE IF currentIndent > baseIndent THEN advance(index, stack)
          ELSE IF key = <<>> THEN advance(index, stack)
          ELSE IF StartsWith(rest, <<":">>) /\ matchSpacesDotPlus(Tail(rest)) # <<>>
          THEN advance(index, stack)
          ELSE IF rest = <<"{", "}">> THEN advance(index, stack)
          ELSE IF rest = <<"[", "]">> THEN advance(index, stack)
          ELSE IF matchTabular(rest) # <<>> THEN
            IF isSafeKey(key) THEN enterBody(index, stack, "parseTabularArray", currentIndent)
            ELSE advance(index, stack)
          ELSE IF StartsWith(rest, <<"[", "]", ":">>) /\ matchDotPlus(Drop(rest, 3))
          THEN advance(index, stack)
          ELSE IF rest = <<"[", "]">> THEN
            IF isSafeKey(key) THEN enterBody(index, stack, "parseListArray", currentIndent)
            ELSE advance(index, stack)
          ELSE IF rest \in {<<>>, <<":">>} THEN
            IF /\ index + 1 < Len(env.lines)
               /\ isSafeKey(key)
               /\ getIndentLevel(env.lines[index + 2], env.indent) > currentIndent
            THEN enterBody(index + 1, stack, "parseObject",
                           getIndentLevel(env.lines[index + 2], env.indent))
            ELSE advance(index, stack)
          ELSE advance(index, stack)

\* an iteration of the while loop of parseTabularArray
tabularIteration(env, index, stack, baseIndent) ==
  IF index >= Len(env.lines) THEN leaveBody(index, stack)
  ELSE IF getIndentLevel(env.lines[index + 1], env.indent) < baseIndent
  THEN leaveBody(index, stack)
  ELSE IF Trim(env.lines[index + 1]) = <<>> THEN advance(index, stack)
  ELSE IF endsTable(Trim(env.lines[index + 1])) THEN leaveBody(index, stack)
  ELSE advance(index, stack)

\* parseNestedValue with the cursor at index
nestedEntry(env, index, stack, minIndent) ==
  IF index >= Len(env.lines) THEN Cursor(index, stack, FALSE)
  ELSE LET trimmed == Trim(env.lines[index + 1])
       IN IF trimmed = <<"{", "}">> THEN advance(index, stack)
          ELSE IF trimmed = <<"[", "]">> THEN advance(index, stack)
          ELSE IF matchTabular(Drop(trimmed, keyLen(trimmed))) # <<>> THEN
            IF keyLen(trimmed) >= 1 THEN enterBody(index, stack, "parseObject", minIndent)
            ELSE enterBody(index, stack, "parseTabularArray", minIndent - 1)
          ELSE IF \/ trimmed = <<"[", "]">>
                  \/ keyLen(trimmed) >= 1 /\ Drop(trimmed, keyLen(trimmed)) = <<"[", "]">>
          THEN enterBody(index, stack, "parseObject", minIndent)
          ELSE IF looksLikeObject(trimmed) THEN enterBody(index, stack, "parseObject", minIndent)
          ELSE advance(index, stack)

\* an iteration of the while loop of parseListArray
listIteration(env, index, stack, baseIndent) ==
  IF index >= Len(env.lines) THEN leaveBody(index, stack)
  ELSE LET currentIndent == getIndentLevel(env.lines[index + 1], env.indent)
           trimmed == Trim(env.lines[index + 1])
       IN IF currentIndent <= baseIndent THEN leaveBody(index, stack)
          ELSE IF StartsWith(trimmed, <<"-", " ">>) THEN advance(index, stack)
          ELSE IF trimmed = <<"-">> THEN
            IF /\ index + 1 < Len(env.lines)
               /\ getIndentLevel(env.lines[index + 2], env.indent) > currentIndent
            THEN nestedEntry(env, index + 1, stack,
                             getIndentLevel(env.lines[index + 2], env.indent))
            ELSE advance(index, stack)
          ELSE advance(index, stack)

\* parseRoot with the cursor at index
rootEntry(env, index) ==
  LET firstLine == Trim(env.lines[index + 1])
  IN IF firstLine = <<"{", "}">> THEN advance(index, <<>>)
     ELSE IF firstLine = <<"[", "]">> THEN advance(index, <<>>)
     ELSE IF matchTabular(firstLine) # <<>> THEN enterBody(index, <<>>, "parseTabularArray", -1)
     ELSE IF StartsWith(firstLine, <<"[", "]", ":">>) /\ matchDotPlus(Drop(firstLine, 3))
     THEN advance(index, <<>>)
     ELSE IF firstLine = <<"[", "]">> THEN enterBody(index, <<>>, "parseListArray", -1)
     ELSE IF looksLikeObject(firstLine) THEN enterBody(index, <<>>, "parseObject", 0)
     ELSE advance(index, <<>>)

\* decode up to the first iteration of a body loop
decodeEntry(input) ==
  IF inputTooLarge(input) THEN Cursor(0, <<>>, TRUE)
  ELSE IF Len(nonEmptyLines(input)) = 0 THEN Cursor(0, <<>>, FALSE)
  ELSE IF startIndex(nonEmptyLines(input)) >= Len(nonEmptyLines(input))
  THEN Cursor(startIndex(nonEmptyLines(input)), <<>>, FALSE)
  ELSE rootEntry(contextOf(nonEmptyLines(input)), startIndex(nonEmptyLines(input)))

\* ctx.lines, ctx.dictionary and ctx.indent before decode has split its input
NoContext == [lines |-> <<>>, dictionary |-> <<>>, indent |-> <<>>]

\* the state after a step that left the cursor as next tells, with the context env
CursorStep(next, env) ==
  /\ decoded' = [val |-> Null, index |-> next.index, depth |-> Len(next.stack), err |-> next.err]
  /\ frame' = [fn |-> "lines", stack |-> next.stack, env |-> env]
  /\ phase' = IF next.err \/ next.stack = <<>> THEN "decoded" ELSE "parsing"
  /\ UNCHANGED <<value, options, encoded>>

\* the caller calls decode on its text
CallDecode ==
  /\ phase = "text"
  /\ frame.fn = "lines"
  /\ CursorStep(decodeEntry(encoded.text),
                IF inputTooLarge(encoded.text) \/ Len(nonEmptyLines(encoded.text)) = 0
                THEN NoContext ELSE contextOf(nonEmptyLines(encoded.text)))

\* the cursor and the calls after one iteration of the loop of the call top
iteration(env, index, stack, top) ==
  IF top.fn = "parseObject" THEN objectIteration(env, index, stack, top.baseIndent)
  ELSE IF top.fn = "parseTabularArray" THEN tabularIteration(env, index, stack, top.baseIndent)
  ELSE listIteration(env, index, stack, top.baseIndent)

\* what the next iteration of the innermost call makes of the state
Iterated == iteration(frame.env, decoded.index, frame.stack, frame.stack[Len(frame.stack)])

\* one iteration of the loop of the innermost call
Iterate ==
  /\ phase = "parsing"
  /\ CursorStep(Iterated, frame.env)

NextLine == CallDecode \/ Iterate

\* a text has 0..MaxCursorLines lines
MaxCursorLines == 3

CursorLines ==
  {<<"a", ":", " ", "1">>, <<"o", ":">>, <<" ", " ", "c", ":", " ", "2">>, <<" ", " ", " ", " ", "d", ":">>, <<"t", "{", "a", "}", ":">>, <<"7">>, <<"?", "?", "?">>, <<" ", " ", "-", " ", "x">>, <<"l", "[", "]">>, <<"$", ":", "$", "0", "=", "a", "b", "c">>}

InitCursor ==
  \E lines \in SeqsOf(CursorLines, 0, MaxCursorLines) :
    /\ phase = "text"
    /\ value = Arr([i \in 1..Len(lines) |-> Str(lines[i])])
    /\ options = <<>>
    /\ encoded = [err |-> FALSE, text |-> Join(lines, <<"\n">>)]
    /\ decoded = Ret(Null, 0, 0)
    /\ frame = [fn |-> "lines", stack |-> <<>>, env |-> NoContext]

\* a step of NextLine that changes the state is possible: the call of decode,
\* or an iteration that moves the cursor, enters or leaves a call, or throws
Moves ==
  \/ phase = "text"
  \/ /\ phase = "parsing"
     /\ \/ Iterated.index # decoded.index
        \/ Iterated.stack # frame.stack
        \/ Iterated.err

\* decode runs without suspension: weak fairness of NextLine, with Moves for
\* ENABLED <<NextLine>>_vars.  A run may stay for ever only in a state where
\* no step changes anything: after the end of decode, or in a loop whose
\* iteration leaves everything as it is
SpecCursor ==
  InitCursor /\ [][NextLine]_vars /\ ([]<>(~Moves) \/ []<><<TRUE>>_vars)

\* C30: the line cursor never moves backwards, every iteration of a body loop
\* advances the cursor or leaves the loop, the cursor is never beyond the
\* number of non-empty lines, and decode terminates
CursorAdvances ==
  /\ [][decoded'.index >= decoded.index]_vars
  /\ [](phase = "parsing" => \/ Iterated.index > decoded.index
                              \/ Len(Iterated.stack) < Len(frame.stack)
                              \/ Iterated.err)
  /\ [](decoded.index <= Len(nonEmptyLines(encoded.text)))
  /\ <>(phase = "decoded")

\* decode has ended on an object whose nested object was left at a line of
\* the outer indent, the cursor after the last line
NestedBodyLeft ==
  /\ phase = "decoded"
  /\ encoded.text = Join(<<<<"o", ":">>, <<" ", " ", "c", ":", " ", "2">>, <<"a", ":", " ", "1">>>>, <<"\n">>)
  /\ decoded.index = 3
  /\ ~decoded.err

====
